---- MODULE Spec2Model ----
(***************************************************************************)
(* vercel-env-checker: the rate-limited, retrying request executor         *)
(* (VercelAPI.request, vercel-api.ts) and the fan-out value search          *)
(* (VercelEnvChecker.searchByValueInProjects, index.ts).                    *)
(*                                                                         *)
(* JavaScript runs one task at a time: a step of the model is the code that *)
(* runs between two suspension points (await of a timer, of the network, of *)
(* the p-limit queue).  Promise continuations (microtasks) run before the   *)
(* next timer or network event is delivered; the guard Quiescent on the     *)
(* timer, network and caller steps states that.                             *)
(***************************************************************************)
EXTENDS Integers, Sequences, FiniteSets, TLC

\* ---------------------------------------------------------------- constants
\* RATE_LIMIT (vercel-api.ts)
maxConcurrent == 5
minDelayMs == 100
retryAttempts == 3
retryDelayMs == 1000

\* PROJECT_CONCURRENCY (index.ts)
PROJECT_CONCURRENCY == 5

\* ------------------------------------------------------------------- bounds
\* number of projects handed to the search
NumProjects == 3
\* longest variable list getEnvVars returns
MaxVars == 2
\* number of executor calls of a concurrent burst (SpecBurst)
NumCalls == 3
\* number of executor calls issued at arbitrary times (Spec)
IssuedCalls == 2
\* resolution of the clock inside one rate-limit window, in ms
Granule == 50

Calls == 1..NumCalls
Attempts == 1..retryAttempts
\* one invocation of request(endpoint, options, attempt): <<call, attempt>>
Frames == Calls \X Attempts

\* HTTP statuses a response can carry
Statuses == {200, 429, 500}

\* Date.now().  Only differences of times decide what the code does, so the
\* model measures every stored time from the current instant: the clock reads
\* 0 at every step, and the passing of d ms (Tick) lowers every stored time
\* by d.
now == 0

VARIABLES
    lastRequestTime,  \* VercelAPI.lastRequestTime (at most minDelayMs in the past)
    hasToken,         \* Config.getToken() returns a token
    activeCount,      \* p-limit: functions started and not yet settled
    queue,            \* p-limit: FIFO queue of the frames waiting to start
    pc,               \* position of every frame
    wakeAt,           \* due time of the timer a sleeping frame awaits
    caught,           \* the error a frame's catch block holds while it backs off
    res,              \* how a settled frame settled
    netAttempts,      \* per call: number of fetch() calls made
    delays,           \* per call: the backoff delays slept, in order
    all429,           \* per call: every response received so far was a 429
    lastStart,        \* time the latest fetch() began (1: none yet)
    minGap,           \* smallest gap seen between two fetch() starts, capped at minDelayMs
    \* searchByValueInProjects
    valueQuery,       \* the text searched for
    searchState,      \* "idle", "running", "done" (returned) or "raised"
    fanActive,        \* p-limit of the search: tasks started and not yet settled
    fanQueue,         \* p-limit of the search: projects whose task waits to start
    taskPc,           \* position of every project's task
    taskOut,          \* what every project's task settled with
    resolved,         \* what getEnvVars gave every project's task
    searchedCount,    \* searchedCount
    results,          \* results: the MatchResult list
    \* Config cache, getEnvVars, getProjectsList
    cacheFiles,       \* the files of the cache directory, by key
    callers,          \* the running getEnvVars / getProjectsList calls
    fsFaulty,         \* file operations may fail (permissions, disk full)
    cacheDir,         \* the cache directory exists
    \* Config token, login, logout
    configFile,       \* the token config.json holds (NoToken: none)
    envToken,         \* process.env.VERCEL_TOKEN (NoToken: not set)
    auth,             \* the running login / logout call
    \* askProjectSelection
    projectCount,     \* projects.length
    cursor,           \* cursor: index of the project under the arrow, from 0
    selected,         \* selected: the ids, in the order they were added
    selection,        \* "none", "selecting", "confirmed" or "cancelled"
    chosen,           \* the array the promise resolved with
    lastKey,          \* the key event handled last
    previous          \* the ids selected before the key handled last

execVars == <<lastRequestTime, hasToken, activeCount, queue, pc, wakeAt, caught,
              res, netAttempts, delays, all429, lastStart, minGap>>
searchVars == <<valueQuery, searchState, fanActive, fanQueue, taskPc, taskOut,
                resolved, searchedCount, results>>
resolveVars == <<cacheFiles, callers, fsFaulty, cacheDir>>
authVars == <<configFile, envToken, auth>>
selectVars == <<projectCount, cursor, selected, selection, chosen, lastKey,
                previous>>
vars == <<execVars, searchVars, resolveVars, authVars, selectVars>>

Min(a, b) == IF a <= b THEN a ELSE b
Max(a, b) == IF a >= b THEN a ELSE b

RECURSIVE Pow2(_)
Pow2(n) == IF n = 0 THEN 1 ELSE 2 * Pow2(n - 1)

\* msg: the error's message contains the text "fetch"
NoResult == [kind |-> "pending", status |-> 0, msg |-> FALSE]
OkResult == [kind |-> "ok", status |-> 200, msg |-> FALSE]
ApiError(s, m) == [kind |-> "ApiError", status |-> s, msg |-> m]
NetworkError(m) == [kind |-> "NetworkError", status |-> 0, msg |-> m]
AuthError == [kind |-> "AuthError", status |-> 0, msg |-> FALSE]

\* RATE_LIMIT.retryDelayMs * Math.pow(2, attempt - 1)
RetryDelayDoubled(attempt) == retryDelayMs * Pow2(attempt)
RetryDelay(attempt) == retryDelayMs * Pow2(attempt - 1)

\* ------------------------------------------------------------------ p-limit
\* asleep in `await this.delay(retryDelay)`: in the 429 branch of the try
\* block, or in the catch block
BackoffPcs == {"backoff429", "backoffCatch"}
\* suspended in `return this.request(..., attempt + 1)`: in the try block, or
\* in the catch block
NestedPcs == {"nested429", "nestedCatch"}

\* a frame holds a permit from the moment p-limit starts its function until
\* the promise of that function settles
HoldsPermit(f) == pc[f] \in {"rateWait", "fetching"} \cup BackoffPcs \cup NestedPcs

Inner(f) == <<f[1], f[2] + 1>>

CanStartInclusive == activeCount <= maxConcurrent /\ queue # <<>>
\* p-limit starts the head of the queue while activeCount < concurrency
CanStart == activeCount < maxConcurrent /\ queue # <<>>

\* `return this.request(..., attempt + 1)`: the frame settles as the nested
\* frame settled
CanPropagate(f) ==
    /\ pc[f] \in NestedPcs
    /\ pc[Inner(f)] = "settled"

\* no promise continuation is pending
Quiescent == ~CanStart /\ \A f \in Frames : ~CanPropagate(f)

Sleepers == {f \in Frames : pc[f] \in {"rateWait"} \cup BackoffPcs}

\* -------------------------------------------------------------------- Init
InitExecutor ==
    /\ lastRequestTime = -minDelayMs
    /\ hasToken \in BOOLEAN
    /\ activeCount = 0
    /\ wakeAt = [f \in Frames |-> 0]
    /\ caught = [f \in Frames |-> NoResult]
    /\ res = [f \in Frames |-> NoResult]
    /\ netAttempts = [c \in Calls |-> 0]
    /\ delays = [c \in Calls |-> <<>>]
    /\ all429 = [c \in Calls |-> TRUE]
    /\ lastStart = 1
    /\ minGap = minDelayMs

\* a fresh VercelAPI: no request issued yet
InitIdle ==
    /\ InitExecutor
    /\ queue = <<>>
    /\ pc = [f \in Frames |-> "idle"]

\* NumCalls requests issued in the same turn of the event loop (the tasks of
\* a Promise.all): all are queued before the first of them runs
InitBurstCalls ==
    /\ InitExecutor
    /\ queue = [c \in Calls |-> <<c, 1>>]
    /\ pc = [f \in Frames |-> IF f[2] = 1 THEN "queued" ELSE "idle"]

\* ----------------------------------------------------------------- request
\* a caller invokes request(endpoint) (attempt = 1): this.limit(...) queues
\* the function
Issue(c) ==
    /\ Quiescent
    /\ c <= IssuedCalls
    /\ pc[<<c, 1>>] = "idle"
    /\ \A d \in Calls : d < c => pc[<<d, 1>>] # "idle"
    /\ pc' = [pc EXCEPT ![<<c, 1>>] = "queued"]
    /\ queue' = Append(queue, <<c, 1>>)
    /\ UNCHANGED <<lastRequestTime, hasToken, activeCount, wakeAt, caught, res,
                   netAttempts, delays, all429, lastStart, minGap>>

\* enforceRateLimit, after the wait: lastRequestTime = Date.now(); then
\* getToken() and fetch().  active is the p-limit count while f runs.
\* as MissingToken, had the token been read after the call to fetch()
MissingTokenAfterFetch(f, active) ==
    /\ pc' = [pc EXCEPT ![f] = "settled"]
    /\ res' = [res EXCEPT ![f] = AuthError]
    /\ activeCount' = active - 1
    /\ netAttempts' = [netAttempts EXCEPT ![f[1]] = @ + 1]
    /\ UNCHANGED <<lastStart, minGap>>

\* `const token = this.getToken()` throws, outside the try block: the frame
\* rejects with that error and p-limit takes the permit back
MissingToken(f, active) ==
    /\ pc' = [pc EXCEPT ![f] = "settled"]
    /\ res' = [res EXCEPT ![f] = AuthError]
    /\ activeCount' = active - 1
    /\ UNCHANGED <<netAttempts, lastStart, minGap>>

BeginAttempt(f, active) ==
    /\ lastRequestTime' = now
    /\ IF hasToken
         THEN /\ pc' = [pc EXCEPT ![f] = "fetching"]
              /\ netAttempts' = [netAttempts EXCEPT ![f[1]] = @ + 1]
              /\ lastStart' = now
              /\ minGap' = IF lastStart = 1 THEN minGap
                           ELSE Min(minGap, now - lastStart)
              /\ activeCount' = active
              /\ res' = res
         ELSE MissingToken(f, active)

\* the wait of enforceRateLimit with the subtraction turned round: the time
\* is negative, the timer fires at once
WaitTimeNegated(timeSinceLastRequest) == timeSinceLastRequest - minDelayMs
\* const waitTime = RATE_LIMIT.minDelayMs - timeSinceLastRequest
WaitTime(timeSinceLastRequest) == minDelayMs - timeSinceLastRequest

\* p-limit starts the head of the queue; the function runs up to its first
\* suspension: enforceRateLimit either sleeps or falls through to fetch()
Start ==
    /\ CanStart
    /\ LET f == Head(queue)
           timeSinceLastRequest == now - lastRequestTime
       IN /\ queue' = Tail(queue)
          /\ IF timeSinceLastRequest < minDelayMs
               THEN /\ pc' = [pc EXCEPT ![f] = "rateWait"]
                    /\ wakeAt' = [wakeAt EXCEPT
                                    ![f] = now + WaitTime(timeSinceLastRequest)]
                    /\ activeCount' = activeCount + 1
                    /\ UNCHANGED <<lastRequestTime, res, netAttempts,
                                   lastStart, minGap>>
               ELSE /\ BeginAttempt(f, activeCount + 1)
                    /\ wakeAt' = wakeAt
    /\ UNCHANGED <<hasToken, caught, delays, all429>>

\* the timer of enforceRateLimit fires
WakeRateLimit(f) ==
    /\ Quiescent
    /\ pc[f] = "rateWait"
    /\ now >= wakeAt[f]
    /\ BeginAttempt(f, activeCount)
    /\ wakeAt' = [wakeAt EXCEPT ![f] = 0]
    /\ UNCHANGED <<hasToken, queue, caught, delays, all429>>

\* p-limit's count after the function of a frame settled with r
ReleasedOnSuccessOnly(r) == IF r.kind = "ok" THEN activeCount - 1 ELSE activeCount
Released(r) == activeCount - 1

\* the frame's promise settles: p-limit takes the permit back
Settle(f, r) ==
    /\ pc' = [pc EXCEPT ![f] = "settled"]
    /\ res' = [res EXCEPT ![f] = r]
    /\ activeCount' = Released(r)
    /\ UNCHANGED <<wakeAt, caught, delays>>

\* await this.delay(retryDelay) before the recursive call; e is the error the
\* catch block holds (NoResult in the 429 branch of the try block)
Backoff(f, where, e) ==
    /\ pc' = [pc EXCEPT ![f] = where]
    /\ caught' = [caught EXCEPT ![f] = e]
    /\ wakeAt' = [wakeAt EXCEPT ![f] = now + RetryDelay(f[2])]
    /\ delays' = [delays EXCEPT ![f[1]] = Append(@, RetryDelay(f[2]))]
    /\ UNCHANGED <<res, activeCount>>

\* the catch block: `attempt < retryAttempts && error.message.includes('fetch')`
CatchRetries(attempt, e) == attempt < retryAttempts /\ e.msg

\* as RateLimitRetries, the attempt cap tested with <= instead of <
RateLimitRetriesInclusive(attempt, status) ==
    status = 429 /\ attempt <= retryAttempts
\* `response.status === 429 && attempt < RATE_LIMIT.retryAttempts`
RateLimitRetries(attempt, status) == status = 429 /\ attempt < retryAttempts

\* catch (error) {...}: back off and retry, or rethrow
Catch(f, e) ==
    IF CatchRetries(f[2], e)
      THEN Backoff(f, "backoffCatch", e)
      ELSE Settle(f, e)

\* fetch() resolves with a response of the given status; msgHasFetch: the
\* message of the error body contains the text "fetch"
Respond(f, status, msgHasFetch) ==
    /\ Quiescent
    /\ pc[f] = "fetching"
    /\ status = 200 => ~msgHasFetch
    /\ all429' = [all429 EXCEPT ![f[1]] = @ /\ status = 429]
    /\ IF status = 200
         THEN Settle(f, OkResult)
         ELSE IF RateLimitRetries(f[2], status)
         THEN Backoff(f, "backoff429", NoResult)
         ELSE \* throw new Error(`API Error (${status}): ${message}`) inside try
              Catch(f, ApiError(status, msgHasFetch))
    /\ UNCHANGED <<lastRequestTime, hasToken, queue, netAttempts,
                   lastStart, minGap>>

\* fetch() rejects (connection refused, timeout, DNS); msgHasFetch: the
\* message of the thrown error contains the text "fetch"
TransportFail(f, msgHasFetch) ==
    /\ Quiescent
    /\ pc[f] = "fetching"
    /\ Catch(f, NetworkError(msgHasFetch))
    /\ all429' = [all429 EXCEPT ![f[1]] = FALSE]
    /\ UNCHANGED <<lastRequestTime, hasToken, queue, netAttempts,
                   lastStart, minGap>>

\* the backoff timer fires: return this.request(endpoint, options, attempt + 1)
WakeBackoff(f) ==
    /\ Quiescent
    /\ pc[f] \in BackoffPcs
    /\ now >= wakeAt[f]
    /\ pc' = [pc EXCEPT ![f] = IF pc[f] = "backoff429" THEN "nested429"
                                 ELSE "nestedCatch",
                          ![Inner(f)] = "queued"]
    /\ queue' = Append(queue, Inner(f))
    /\ wakeAt' = [wakeAt EXCEPT ![f] = 0]
    /\ caught' = [caught EXCEPT ![f] = NoResult]
    /\ UNCHANGED <<lastRequestTime, hasToken, activeCount, res,
                   netAttempts, delays, all429, lastStart, minGap>>

\* as Propagate, had the try block awaited the nested request (`return await
\* this.request(...)`): the frame's catch block sees the rejection
PropagateAwaited(f) ==
    /\ CanPropagate(f)
    /\ IF /\ pc[f] = "nested429"
          /\ res[Inner(f)].kind # "ok"
          /\ CatchRetries(f[2], res[Inner(f)])
         THEN /\ pc' = [pc EXCEPT ![f] = "nestedCatch", ![Inner(f)] = "queued"]
              /\ queue' = Append(queue, Inner(f))
              /\ UNCHANGED <<activeCount, res, wakeAt, caught, delays>>
         ELSE /\ Settle(f, res[Inner(f)])
              /\ queue' = queue
    /\ UNCHANGED <<lastRequestTime, hasToken, netAttempts, all429, lastStart,
                   minGap>>

\* the nested request settled: the frame that returned it settles the same
\* way (the promise is returned, not awaited, so the catch block is not run)
Propagate(f) ==
    /\ CanPropagate(f)
    /\ Settle(f, res[Inner(f)])
    /\ UNCHANGED <<lastRequestTime, hasToken, queue, netAttempts, all429,
                   lastStart, minGap>>

\* ------------------------------------------------------------------- clock
\* the time until the next timer is due (0: no timer is pending)
NextDue ==
    LET due == {wakeAt[f] : f \in Sleepers}
    IN  IF due = {} THEN 0 ELSE CHOOSE t \in due : \A u \in due : t <= u

\* d ms pass: every stored time moves d into the past
Pass(d) ==
    /\ lastRequestTime' = Max(lastRequestTime - d, -minDelayMs)
    /\ lastStart' = IF lastStart = 1 THEN 1 ELSE Max(lastStart - d, -minDelayMs)
    /\ wakeAt' = [f \in Frames |-> IF f \in Sleepers THEN wakeAt[f] - d ELSE 0]
    /\ UNCHANGED <<hasToken, activeCount, queue, pc, caught, res,
                   netAttempts, delays, all429, minGap>>

\* time passes until the next timer is due
TickTimer ==
    /\ Quiescent
    /\ NextDue > 0
    /\ Pass(NextDue)

\* one Granule passes inside an open rate-limit window, no timer being due
\* before
TickGranule ==
    /\ Quiescent
    /\ now - lastRequestTime < minDelayMs
    /\ Sleepers # {} => Granule < NextDue
    /\ Pass(Granule)

ExecutorNext ==
    \/ \E c \in Calls : Issue(c)
    \/ Start
    \/ \E f \in Frames : WakeRateLimit(f)
    \/ \E f \in Frames, s \in Statuses, m \in BOOLEAN : Respond(f, s, m)
    \/ \E f \in Frames, m \in BOOLEAN : TransportFail(f, m)
    \/ \E f \in Frames : WakeBackoff(f)
    \/ \E f \in Frames : Propagate(f)
    \/ TickTimer
    \/ TickGranule

\* a caller that awaits each request before it issues the next (the page
\* loop of getProjects): request c is issued once request c - 1 has settled
IssueNext(c) ==
    /\ \A d \in Calls : d < c => pc[<<d, 1>>] = "settled"
    /\ Issue(c)

SequentialNext ==
    \/ \E c \in Calls : IssueNext(c)
    \/ Start
    \/ \E f \in Frames : WakeRateLimit(f)
    \/ \E f \in Frames, s \in Statuses, m \in BOOLEAN : Respond(f, s, m)
    \/ \E f \in Frames, m \in BOOLEAN : TransportFail(f, m)
    \/ \E f \in Frames : WakeBackoff(f)
    \/ \E f \in Frames : Propagate(f)
    \/ TickTimer
    \/ TickGranule

\* the burst meets a server that answers 200 or 429
BurstNext ==
    \/ Start
    \/ \E f \in Frames : WakeRateLimit(f)
    \/ \E f \in Frames, s \in {200, 429} : Respond(f, s, FALSE)
    \/ \E f \in Frames : WakeBackoff(f)
    \/ \E f \in Frames : Propagate(f)
    \/ TickTimer

\* ------------------------------------------------------------------ search
Projects == 1..NumProjects

\* a character of a value: <<letter, case>>
Chars == {<<"s", "lower">>, <<"s", "upper">>, <<"x", "lower">>}
\* String.prototype.toLowerCase, per character
ToLowerCaseChar(ch) == IF ch[2] = "upper" THEN <<ch[1], "lower">> ELSE ch
ToLowerCase(str) == [i \in DOMAIN str |-> ToLowerCaseChar(str[i])]
\* String.prototype.includes
Includes(str, sub) ==
    \E i \in 1..(Len(str) - Len(sub) + 1) :
        SubSeq(str, i, i + Len(sub) - 1) = sub

\* values of variables (<<>>: the value is absent or empty) and queries
Values == {<<>>, <<<<"s", "upper">>>>, <<<<"x", "lower">>, <<"s", "lower">>>>,
           <<<<"x", "lower">>>>}
Queries == {<<<<"s", "lower">>>>, <<<<"s", "upper">>>>,
            <<<<"x", "lower">>, <<"s", "upper">>>>}

\* the lists getEnvVars can return: variable i has key i
EnvLists ==
    UNION {[1..n -> [key : 1..MaxVars, value : Values]] : n \in 0..MaxVars}
ValidEnvLists == {l \in EnvLists : \A i \in DOMAIN l : l[i].key = i}

Failed == <<[key |-> 0, value |-> <<>>]>>
Unresolved == <<[key |-> -1, value |-> <<>>]>>

\* the filter callback of the task, without toLowerCase
ValueMatchesCaseSensitive(env, q) ==
    IF env.value # <<>> THEN Includes(env.value, q) ELSE FALSE
\* the filter callback of the task:
\* env.value ? env.value.toLowerCase().includes(valueQuery.toLowerCase()) : false
ValueMatches(env, q) ==
    IF env.value # <<>>
      THEN Includes(ToLowerCase(env.value), ToLowerCase(q))
      ELSE FALSE

\* envVars.filter(...)
MatchesOf(envVars, q) == SelectSeq(envVars, LAMBDA env : ValueMatches(env, q))

Null == [state |-> "fulfilled", project |-> 0, matches |-> <<>>]
Pending == [state |-> "pending", project |-> 0, matches |-> <<>>]
Rejected == [state |-> "rejected", project |-> 0, matches |-> <<>>]
MatchResult(p, m) == [state |-> "fulfilled", project |-> p, matches |-> m]

\* what the task of a project settles with when getEnvVars throws, were the
\* body of the task not wrapped in try/catch
TaskOnErrorUncaught(p) == Rejected
\* what the task of a project settles with when getEnvVars throws:
\* catch (e) { return null; }
TaskOnError(p) == Null

InitSearchIdle ==
    /\ valueQuery = <<>>
    /\ searchState = "idle"
    /\ fanActive = 0
    /\ fanQueue = <<>>
    /\ taskPc = [p \in Projects |-> "none"]
    /\ taskOut = [p \in Projects |-> Pending]
    /\ resolved = [p \in Projects |-> Unresolved]
    /\ searchedCount = 0
    /\ results = <<>>

\* searchByValueInProjects(valueQuery, target, projects) has run up to
\* `await Promise.all(searchTasks)`: projects.map queued one task per project
InitSearch ==
    /\ InitIdle
    /\ hasToken
    /\ valueQuery \in Queries
    /\ searchState = "running"
    /\ fanActive = 0
    /\ fanQueue = [p \in Projects |-> p]
    /\ taskPc = [p \in Projects |-> "queued"]
    /\ taskOut = [p \in Projects |-> Pending]
    /\ resolved = [p \in Projects |-> Unresolved]
    /\ searchedCount = 0
    /\ results = <<>>

\* the p-limit of the search starts the next task, which runs up to
\* `await this.api.getEnvVars(project.id, true, target)`
TaskStart ==
    /\ searchState # "idle"
    /\ fanActive < PROJECT_CONCURRENCY
    /\ fanQueue # <<>>
    /\ fanActive' = fanActive + 1
    /\ fanQueue' = Tail(fanQueue)
    /\ taskPc' = [taskPc EXCEPT ![Head(fanQueue)] = "resolving"]
    /\ searchedCount' = searchedCount + 1
    /\ UNCHANGED <<valueQuery, searchState, taskOut, resolved, results>>

\* getEnvVars resolves with envVars: the task filters them and returns a
\* MatchResult or null
TaskResolved(p, envVars) ==
    /\ taskPc[p] = "resolving"
    /\ LET matches == MatchesOf(envVars, valueQuery)
       IN taskOut' = [taskOut EXCEPT ![p] =
                        IF Len(matches) > 0 THEN MatchResult(p, matches)
                        ELSE Null]
    /\ taskPc' = [taskPc EXCEPT ![p] = "done"]
    /\ resolved' = [resolved EXCEPT ![p] = envVars]
    /\ fanActive' = fanActive - 1
    /\ UNCHANGED <<valueQuery, searchState, fanQueue, searchedCount, results>>

\* getEnvVars rejects
TaskFailed(p) ==
    /\ taskPc[p] = "resolving"
    /\ taskOut' = [taskOut EXCEPT ![p] = TaskOnError(p)]
    /\ taskPc' = [taskPc EXCEPT ![p] = "done"]
    /\ resolved' = [resolved EXCEPT ![p] = Failed]
    /\ fanActive' = fanActive - 1
    /\ UNCHANGED <<valueQuery, searchState, fanQueue, searchedCount, results>>

RECURSIVE NonNullNewestFirst(_)
\* the collection loop with results.unshift(result)
NonNullNewestFirst(outs) ==
    IF outs = <<>> THEN <<>>
    ELSE IF Head(outs).project # 0
      THEN NonNullNewestFirst(Tail(outs))
           \o <<[project |-> Head(outs).project, matches |-> Head(outs).matches]>>
      ELSE NonNullNewestFirst(Tail(outs))
RECURSIVE NonNull(_)
\* for (const result of searchResults) if (result) results.push(result)
NonNull(outs) ==
    IF outs = <<>> THEN <<>>
    ELSE IF Head(outs).project # 0
      THEN <<[project |-> Head(outs).project, matches |-> Head(outs).matches]>>
           \o NonNull(Tail(outs))
      ELSE NonNull(Tail(outs))

\* `await Promise.all(searchTasks)` settles: it rejects as soon as one task
\* has rejected (the outer catch rethrows), and resolves once every task has
\* fulfilled; then the results are collected in the order of projects
AwaitAll ==
    /\ searchState = "running"
    /\ IF \E p \in DOMAIN taskOut : taskOut[p].state = "rejected"
         THEN /\ searchState' = "raised"
              /\ results' = results
         ELSE /\ \A p \in DOMAIN taskOut : taskOut[p].state = "fulfilled"
              /\ searchState' = "done"
              /\ results' = NonNull(taskOut)
    /\ UNCHANGED <<valueQuery, fanActive, fanQueue, taskPc, taskOut, resolved,
                   searchedCount>>

\* what searchByValueInProjects prints once Promise.all has resolved:
\* `if (results.length === 0)` the "No environment variables ... were found"
\* line, else the "Found ..." line and one table per result
SearchOutput(rs) ==
    IF Len(rs) = 0 THEN [kind |-> "noneFound", tables |-> <<>>]
    ELSE [kind |-> "found", tables |-> rs]

SearchNext ==
    \/ TaskStart
    \/ \E p \in Projects, envVars \in ValidEnvLists : TaskResolved(p, envVars)
    \/ \E p \in Projects : TaskFailed(p)
    \/ AwaitAll

\* ------------------------------------------------------------- cache store
\* ENV_CACHE_TTL (vercel-api.ts)
ENV_CACHE_TTL == 5 * 60 * 1000
\* getCache (config.ts): `cache.ttl ?? 3600000`
DefaultTtlMs == 3600000
\* getEnvVars: `const detailLimit = pLimit(3)`
DetailLimit == 3
\* getProjects: `Math.min(limit, 100)`
PageCap == 100

\* number of callers of getEnvVars / getProjectsList; each makes one call
\* after another
NumCallers == 1
\* step of the clock of the cache, in ms
TickMs == 300000
\* number of projects the server lists
NumServerProjects == 3

Callers == 1..NumCallers

\* the project whose variables are resolved, and the limits getProjectsList
\* is called with
ResolveProjects == {1}
Limits == {2}
\* targetFilter ("": null)
Filters == {"", "production", "preview"}

\* `${includeValues}`
BoolString(b) == IF b THEN "true" ELSE "false"
\* `envvars_${projectId}_${includeValues}`
EnvKey(projectId, includeValues) == <<"envvars", projectId, BoolString(includeValues)>>
\* `projects_${limit}`
ProjectsKey(limit) == <<"projects", limit, "">>
CacheKeys == {EnvKey(p, b) : p \in ResolveProjects, b \in BOOLEAN}
             \cup {ProjectsKey(l) : l \in Limits}

\* the response of the list endpoint for the project: EnvVar records (value
\* "": no value; id 0: no id)
ServerEnvs ==
    << [id |-> 1, key |-> "DATABASE_URL", value |-> "postgres://db",
        type |-> "plain", target |-> {"production"}],
       [id |-> 2, key |-> "API_KEY", value |-> "",
        type |-> "encrypted", target |-> {"preview"}],
       [id |-> 3, key |-> "TOKEN", value |-> "ciphertext",
        type |-> "encrypted", target |-> {"production", "preview"}],
       [id |-> 0, key |-> "LEGACY_SECRET", value |-> "legacy-ciphertext",
        type |-> "encrypted", target |-> {"preview"}],
       [id |-> 4, key |-> "EMPTY_SECRET", value |-> "enc-empty",
        type |-> "encrypted", target |-> {"production"}] >>
\* the value the detail endpoint gives for the variable of that id
DetailValue(id) == IF id = 2 THEN "sk_preview" ELSE IF id = 3 THEN "sk_live" ELSE ""
\* the projects the server lists, in server order
ServerProjects == [i \in 1..NumServerProjects |-> i]

\* the cache file of a key: absent, unparsable, or a CacheData record
\* {timestamp, data, ttl?}.  Times are measured from the current instant,
\* as lastRequestTime is.
NoTtl == -1
NoFile == [kind |-> "none", timestamp |-> 0, ttl |-> NoTtl, data |-> <<>>]
CorruptFile == [kind |-> "corrupt", timestamp |-> 0, ttl |-> NoTtl, data |-> <<>>]
\* setCache: cacheData = {timestamp: Date.now(), data}, and ttl when
\* ttlMs !== undefined
CacheData(timestamp, data, ttlMs) ==
    [kind |-> "entry", timestamp |-> timestamp, ttl |-> ttlMs, data |-> data]

\* getCache: `const ttl = cache.ttl ?? 3600000`
Ttl(cache) == IF cache.ttl = NoTtl THEN DefaultTtlMs ELSE cache.ttl

\* getCache: as Fresh, with <= for <
FreshInclusive(cache) == now - cache.timestamp <= Ttl(cache)
\* getCache: `Date.now() - cache.timestamp < ttl`
Fresh(cache) == now - cache.timestamp < Ttl(cache)

\* the outcomes of a file operation: TRUE, it succeeded
FsOutcomes == IF fsFaulty THEN BOOLEAN ELSE {TRUE}

\* no cursor (null)
NoCursor == 0

IdleCaller ==
    [op |-> "none", pc |-> "idle", key |-> <<"", 0, "">>,
     includeValues |-> FALSE, targetFilter |-> "", limit |-> 0,
     total |-> 0,            \* getProjects: how many projects the server has
     hit |-> FALSE,          \* getCache returned an entry's data
     cached |-> <<>>,        \* cached / projects: the data getCache returned
     data |-> <<>>,          \* envs / projects
     next |-> NoCursor,      \* getProjects: next
     stamp |-> 0,            \* setCache: cacheData.timestamp
     filteredEnvs |-> <<>>,
     detail |-> <<>>,        \* per variable of filteredEnvs: its detail task
     out |-> <<>>,           \* the list returned
     error |-> "none",       \* what the call raised: "network", "cache"
     listRequests |-> 0]     \* list / page requests issued by the call

InitResolveIdle ==
    /\ cacheFiles = [k \in CacheKeys |-> NoFile]
    /\ callers = [c \in Callers |-> IdleCaller]
    /\ fsFaulty = FALSE
    /\ cacheDir = FALSE

InitCache ==
    /\ cacheFiles = [k \in CacheKeys |-> NoFile]
    /\ callers = [c \in Callers |-> IdleCaller]
    /\ fsFaulty \in BOOLEAN
    /\ cacheDir \in BOOLEAN

\* ------------------------------------------------- getCache and setCache
\* getCache returned null (`if (cached)` fails, `if (!projects)` holds):
\* getEnvVars requests the list; getProjectsList calls getProjects(limit),
\* which requests the first page
OnMiss(rec) ==
    [rec EXCEPT !.pc = "request", !.hit = FALSE, !.data = <<>>,
                !.next = NoCursor, !.listRequests = @ + 1]

\* the call returns the list
Returned(rec, list) ==
    [rec EXCEPT !.pc = "returned", !.out = list, !.data = <<>>,
                !.next = NoCursor, !.stamp = 0, !.filteredEnvs = <<>>]

\* the call raises
Raised(rec, e) ==
    [rec EXCEPT !.pc = "raised", !.error = e, !.data = <<>>,
                !.next = NoCursor, !.stamp = 0, !.filteredEnvs = <<>>,
                !.detail = <<>>]

\* ---------------------------------------------------------------- getEnvVars
\* envs.filter(env => env.target.includes(targetFilter)), if (targetFilter)
FilteredEnvs(envs, targetFilter) ==
    IF targetFilter # ""
      THEN SelectSeq(envs, LAMBDA env : targetFilter \in env.target)
      ELSE envs

\* env.type === 'encrypted' || !env.value
IsEncryptedEnv(env) == env.type = "encrypted" \/ env.value = ""

\* the detail task of a variable: "none" (not in encryptedEnvs), "queued",
\* "inflight", "ok" (details fetched), "failed" or "null" (no id)
DetailsQueued(detail) == {i \in DOMAIN detail : detail[i] = "queued"}
DetailsInFlight(detail) == {i \in DOMAIN detail : detail[i] = "inflight"}
\* Promise.all(detailPromises) resolves, were it a race: one task has settled
DetailsAnySettled(detail) ==
    \E i \in DOMAIN detail : detail[i] \in {"ok", "failed", "null"}
\* Promise.all(detailPromises) resolves: every task has settled
DetailsSettled(detail) ==
    \A i \in DOMAIN detail : detail[i] \in {"none", "ok", "failed", "null"}
\* Promise.all(detailPromises) rejects: a task has rejected
DetailsRejected(detail) == \E i \in DOMAIN detail : detail[i] = "rejected"

\* what the task of a variable settles as when getEnvVarDetails throws, were
\* the call not wrapped in try/catch
DetailTaskOnErrorUncaught == "rejected"
\* what the task of a variable settles as when getEnvVarDetails throws:
\* catch (e) { return null; }
DetailTaskOnError == "failed"

RECURSIVE StartDetails(_, _)
\* detailLimit starts the queued tasks in order while fewer than DetailLimit
\* run; the task of a variable without id returns null at once
StartDetails(detail, envs) ==
    IF DetailsQueued(detail) = {}
       \/ Cardinality(DetailsInFlight(detail)) >= DetailLimit
      THEN detail
      ELSE LET i == CHOOSE i \in DetailsQueued(detail) :
                        \A j \in DetailsQueued(detail) : i <= j
           IN  StartDetails([detail EXCEPT ![i] = IF envs[i].id = 0 THEN "null"
                                                  ELSE "inflight"], envs)

\* the state of the detail tasks when encryptedEnvs.map(...) has run
DetailTasks(filtered) ==
    StartDetails([i \in DOMAIN filtered |->
                     IF IsEncryptedEnv(filtered[i]) THEN "queued" ELSE "none"],
                 filtered)

\* the update loop without the test of details.value:
\*   if (result) result.env.value = result.details.value
EnrichedUnconditionally(filtered, detail) ==
    [i \in DOMAIN filtered |->
        IF detail[i] = "ok"
          THEN [filtered[i] EXCEPT !.value = DetailValue(filtered[i].id)]
          ELSE filtered[i]]
\* for (const result of results)
\*   if (result && result.details.value) result.env.value = result.details.value
Enriched(filtered, detail) ==
    [i \in DOMAIN filtered |->
        IF detail[i] = "ok" /\ DetailValue(filtered[i].id) # ""
          THEN [filtered[i] EXCEPT !.value = DetailValue(filtered[i].id)]
          ELSE filtered[i]]

\* getEnvVars from `let filteredEnvs = envs` on: filter, then start the
\* detail tasks and await them, or return
AfterEnvs(rec, envs) ==
    LET filtered == FilteredEnvs(envs, rec.targetFilter)
        detail == DetailTasks(filtered)
    IN  IF rec.includeValues /\ \E i \in DOMAIN filtered : IsEncryptedEnv(filtered[i])
          THEN IF DetailsSettled(detail)
                 THEN Returned([rec EXCEPT !.detail = detail],
                               Enriched(filtered, detail))
                 ELSE [rec EXCEPT !.pc = "details", !.data = <<>>,
                                  !.filteredEnvs = filtered, !.detail = detail]
          ELSE Returned([rec EXCEPT !.detail = [i \in DOMAIN filtered |-> "none"]],
                        filtered)

\* as OnHit, the list requested all the same
OnHitRefetches(rec, data) == [OnMiss(rec) EXCEPT !.hit = TRUE, !.cached = data]
\* as OnHit, the cached list returned as it is
OnHitAsCached(rec, data) ==
    Returned([rec EXCEPT !.hit = TRUE, !.cached = data], data)
\* as OnHit, the entry set again from the data read (a sliding expiry)
OnHitTouches(rec, data) ==
    [rec EXCEPT !.hit = TRUE, !.cached = data, !.pc = "mkdir", !.data = data]
\* getCache returned the data of an entry: getEnvVars goes on with
\* `envs = cached`, getProjectsList returns it
OnHit(rec, data) ==
    IF rec.op = "getEnvVars"
      THEN AfterEnvs([rec EXCEPT !.hit = TRUE, !.cached = data], data)
      ELSE Returned([rec EXCEPT !.hit = TRUE, !.cached = data], data)

\* a caller invokes getEnvVars(projectId, includeValues, targetFilter): it
\* runs up to the readFile of getCache
CallGetEnvVars(c, projectId, includeValues, targetFilter) ==
    /\ callers[c].pc \in {"idle", "returned", "raised"}
    /\ callers' = [callers EXCEPT ![c] =
                     [IdleCaller EXCEPT !.op = "getEnvVars", !.pc = "readFile",
                                        !.key = EnvKey(projectId, includeValues),
                                        !.includeValues = includeValues,
                                        !.targetFilter = targetFilter]]
    /\ UNCHANGED <<cacheFiles, fsFaulty, cacheDir>>

\* a caller invokes getProjectsList(limit)
CallGetProjectsList(c, limit) ==
    /\ callers[c].pc \in {"idle", "returned", "raised"}
    /\ callers' = [callers EXCEPT ![c] =
                     [IdleCaller EXCEPT !.op = "getProjectsList", !.pc = "readFile",
                                        !.key = ProjectsKey(limit),
                                        !.limit = limit,
                                        !.total = Len(ServerProjects)]]
    /\ UNCHANGED <<cacheFiles, fsFaulty, cacheDir>>

\* getCache, readFile settled: a fresh entry is returned, an expired one is
\* unlinked, anything else (no file, unreadable, unparsable) is caught
ReadFile(c, fsOk) ==
    LET rec == callers[c]
        cache == cacheFiles[rec.key]
    IN  /\ rec.pc = "readFile"
        /\ callers' = [callers EXCEPT ![c] =
              IF fsOk /\ cache.kind = "entry"
                THEN IF Fresh(cache) THEN OnHit(rec, cache.data)
                     ELSE [rec EXCEPT !.pc = "unlink"]
                ELSE OnMiss(rec)]
        /\ UNCHANGED <<cacheFiles, fsFaulty, cacheDir>>

\* getCache: `await fs.promises.unlink(cacheFile).catch(() => {})`, then
\* return null
Unlink(c, fsOk) ==
    LET rec == callers[c]
    IN  /\ rec.pc = "unlink"
        /\ cacheFiles' = IF fsOk THEN [cacheFiles EXCEPT ![rec.key] = NoFile]
                         ELSE cacheFiles
        /\ callers' = [callers EXCEPT ![c] = OnMiss(rec)]
        /\ UNCHANGED <<fsFaulty, cacheDir>>

\* what getEnvVars does when the list request rejects, were the rejection
\* taken for an empty list
ListOnErrorEmpty(rec) == [rec EXCEPT !.pc = "mkdir", !.data = <<>>]
\* what getEnvVars does when the list request rejects: the await is not in a
\* try block, the rejection propagates
ListOnError(rec) == Raised(rec, "network")

\* this.request of the list endpoint settles: `envs = data.envs || []`, then
\* setCache(cacheKey, envs, ENV_CACHE_TTL) runs up to ensureConfigDir; a
\* rejection propagates
ListResponds(c, ok) ==
    LET rec == callers[c]
    IN  /\ rec.op = "getEnvVars"
        /\ rec.pc = "request"
        /\ callers' = [callers EXCEPT ![c] =
              IF ok THEN [rec EXCEPT !.pc = "mkdir", !.data = ServerEnvs]
              ELSE ListOnError(rec)]
        /\ UNCHANGED <<cacheFiles, fsFaulty, cacheDir>>

\* ---------------------------------------------------------------- getProjects
\* the sizes of the page the server may answer a request with
PageSizes(rec) ==
    LET remaining == rec.total - rec.next
        param == Min(rec.limit, PageCap)
    IN  IF remaining = 0 \/ param = 0 THEN {0} ELSE 1..Min(param, remaining)

\* `return projects.slice(0, limit)`, without the slice
SliceNone(projects, limit) == projects
\* projects.slice(0, limit)
Slice(projects, limit) == SubSeq(projects, 1, Min(limit, Len(projects)))

\* getProjects returns list: getProjectsList goes on to
\* setCache(cacheKey, projects), a direct caller has its result
GetProjectsReturns(rec, list) ==
    IF rec.op = "getProjectsList"
      THEN [rec EXCEPT !.pc = "mkdir", !.next = NoCursor, !.data = list]
      ELSE Returned(rec, list)

\* this.request of a page settles: push the page; stop at limit items or
\* without a next cursor, else request the next page
PageResponds(c, ok, size) ==
    LET rec == callers[c]
        page == SubSeq(ServerProjects, rec.next + 1, rec.next + size)
        nextCursor == IF rec.next + size < rec.total
                        THEN rec.next + size ELSE NoCursor
        projects == rec.data \o page
    IN  /\ rec.op \in {"getProjectsList", "getProjects"}
        /\ rec.pc = "request"
        /\ size \in PageSizes(rec)
        /\ callers' = [callers EXCEPT ![c] =
              IF ~ok THEN Raised(rec, "network")
              ELSE IF Len(projects) < rec.limit /\ nextCursor # NoCursor
                THEN [rec EXCEPT !.data = projects, !.next = nextCursor,
                                 !.listRequests = @ + 1]
                ELSE GetProjectsReturns(rec, Slice(projects, rec.limit))]
        /\ UNCHANGED <<cacheFiles, fsFaulty, cacheDir>>

\* most page requests of a call that are counted: beyond, the count
\* alternates between the last two values
MaxPageRequests == 4
\* largest limit getProjects is called with
MaxLimit == 4

\* a caller invokes getProjects(limit), the server having the first total
\* projects of ServerProjects: it runs up to the request of the first page
CallGetProjects(c, limit, total) ==
    /\ callers[c].pc \in {"idle", "returned", "raised"}
    /\ callers' = [callers EXCEPT ![c] =
                     [IdleCaller EXCEPT !.op = "getProjects", !.pc = "request",
                                        !.limit = limit, !.total = total,
                                        !.listRequests = 1]]
    /\ UNCHANGED <<cacheFiles, fsFaulty, cacheDir>>

\* a page request is answered with an empty page and the cursor of the page
\* before: nothing is pushed, `next && projects.length < limit` holds, and
\* the same page is requested again
PageStalls(c) ==
    LET rec == callers[c]
    IN  /\ rec.op \in {"getProjectsList", "getProjects"}
        /\ rec.pc = "request"
        /\ rec.next # NoCursor
        /\ Len(rec.data) < rec.limit
        /\ callers' = [callers EXCEPT ![c] =
              [rec EXCEPT !.listRequests = IF @ < MaxPageRequests THEN @ + 1
                                           ELSE MaxPageRequests - 1]]
        /\ UNCHANGED <<cacheFiles, fsFaulty, cacheDir>>

PagesNext ==
    \/ \E c \in Callers, l \in 0..MaxLimit, t \in 0..NumServerProjects :
          CallGetProjects(c, l, t)
    \/ \E c \in Callers, ok \in BOOLEAN, n \in 0..NumServerProjects :
          PageResponds(c, ok, n)
    \/ \E c \in Callers : PageStalls(c)

\* ------------------------------------------------------------------ setCache
\* as EnsureConfigDir, without its try/catch
EnsureConfigDirUncaught(fsOk) == IF fsOk THEN "ok" ELSE "raise"
\* ensureConfigDir: a failing mkdir is caught
EnsureConfigDir(fsOk) == "ok"

\* the ttlMs a caller passes to setCache, were ENV_CACHE_TTL left out
TtlArgNone(rec) == NoTtl
\* the ttlMs a caller passes to setCache: getEnvVars ENV_CACHE_TTL,
\* getProjectsList none
TtlArg(rec) == IF rec.op = "getEnvVars" THEN ENV_CACHE_TTL ELSE NoTtl

\* setCache: ensureConfigDir settled (its mkdir calls made the directory,
\* unless they failed); cacheData is built and serialized, and writeFile
\* begins
Mkdir(c, fsOk) ==
    LET rec == callers[c]
    IN  /\ rec.pc = "mkdir"
        /\ callers' = [callers EXCEPT ![c] =
              IF EnsureConfigDir(fsOk) = "ok"
                THEN [rec EXCEPT !.pc = "writeFile", !.stamp = now]
                ELSE Raised(rec, "cache")]
        /\ cacheDir' = (cacheDir \/ fsOk)
        /\ UNCHANGED <<cacheFiles, fsFaulty>>

\* the data getEnvVars passes to setCache, were it the filtered list
SetCacheDataFiltered(rec) ==
    IF rec.op = "getEnvVars" THEN FilteredEnvs(rec.data, rec.targetFilter)
    ELSE rec.data
\* the data getEnvVars passes to setCache, were it the list with the detail
\* values filled in
SetCacheDataEnriched(rec) ==
    IF rec.op = "getEnvVars"
      THEN Enriched(rec.data, [i \in DOMAIN rec.data |->
                                 IF IsEncryptedEnv(rec.data[i]) THEN "ok" ELSE "none"])
      ELSE rec.data
\* the data the caller passes to setCache: envs (before the filter and the
\* detail fetches), projects
SetCacheData(rec) == rec.data

\* the outcomes of writeFile: it fails (ENOENT) without the directory
WriteOutcomes == IF cacheDir THEN FsOutcomes ELSE {FALSE}

\* setCache: writeFile settled (a failure is caught, and may leave a broken
\* file); then the caller goes on
WriteFile(c, fsOk, broken) ==
    LET rec == callers[c]
    IN  /\ rec.pc = "writeFile"
        /\ fsOk \in WriteOutcomes
        /\ fsOk => ~broken
        /\ broken => cacheDir
        /\ cacheFiles' =
              IF fsOk
                THEN [cacheFiles EXCEPT ![rec.key] =
                         CacheData(rec.stamp, SetCacheData(rec), TtlArg(rec))]
                ELSE IF broken THEN [cacheFiles EXCEPT ![rec.key] = CorruptFile]
                ELSE cacheFiles
        /\ callers' = [callers EXCEPT ![c] =
              IF rec.op = "getEnvVars" THEN AfterEnvs(rec, rec.data)
              ELSE Returned(rec, rec.data)]
        /\ UNCHANGED <<fsFaulty, cacheDir>>

\* the detail request of variable i settles: the next queued task starts;
\* when all have settled, the values are filled in and the list returned
DetailSettles(c, i, ok) ==
    LET rec == callers[c]
    IN  /\ rec.pc = "details"
        /\ i \in DOMAIN rec.detail
        /\ rec.detail[i] = "inflight"
        /\ LET detail == StartDetails([rec.detail EXCEPT ![i] =
                                          IF ok THEN "ok" ELSE DetailTaskOnError],
                                      rec.filteredEnvs)
           IN  callers' = [callers EXCEPT ![c] =
                  IF DetailsRejected(detail) THEN Raised(rec, "network")
                  ELSE IF DetailsSettled(detail)
                    THEN Returned([rec EXCEPT !.detail = detail],
                                  Enriched(rec.filteredEnvs, detail))
                    ELSE [rec EXCEPT !.detail = detail]]
        /\ UNCHANGED <<cacheFiles, fsFaulty, cacheDir>>

\* ---------------------------------------------------------------- clearCache
\* a caller invokes clearCache(): it runs up to fs.promises.access(cacheDir)
CallClearCache(c) ==
    /\ callers[c].pc \in {"idle", "returned", "raised"}
    /\ callers' = [callers EXCEPT ![c] =
                     [IdleCaller EXCEPT !.op = "clearCache", !.pc = "access"]]
    /\ UNCHANGED <<cacheFiles, fsFaulty, cacheDir>>

\* access settled: `.then(() => true).catch(() => false)`; `if (exists)` the
\* directory is removed, else clearCache returns
Access(c, fsOk) ==
    LET rec == callers[c]
        exists == fsOk /\ cacheDir
    IN  /\ rec.pc = "access"
        /\ callers' = [callers EXCEPT ![c] =
              IF exists THEN [rec EXCEPT !.pc = "rm"] ELSE Returned(rec, <<>>)]
        /\ UNCHANGED <<cacheFiles, fsFaulty, cacheDir>>

\* rm(cacheDir, {recursive: true}) settled: the directory and its files are
\* gone and mkdir begins; or rm failed, having removed the files not in
\* kept, and the failure is caught (`// Silent fail`)
Rm(c, fsOk, kept) ==
    LET rec == callers[c]
    IN  /\ rec.pc = "rm"
        /\ fsOk => kept = {}
        /\ \A k \in kept : cacheFiles[k] # NoFile
        /\ cacheFiles' = [k \in CacheKeys |->
                            IF k \in kept THEN cacheFiles[k] ELSE NoFile]
        /\ cacheDir' = IF fsOk THEN FALSE ELSE cacheDir
        /\ callers' = [callers EXCEPT ![c] =
              IF fsOk THEN [rec EXCEPT !.pc = "mkdirCache"]
              ELSE Returned(rec, <<>>)]
        /\ UNCHANGED fsFaulty

\* mkdir(cacheDir, {recursive: true}) settled (a failure is caught):
\* clearCache returns
MkdirCache(c, fsOk) ==
    LET rec == callers[c]
    IN  /\ rec.pc = "mkdirCache"
        /\ cacheDir' = (cacheDir \/ fsOk)
        /\ callers' = [callers EXCEPT ![c] = Returned(rec, <<>>)]
        /\ UNCHANGED <<cacheFiles, fsFaulty>>

\* d ms pass: every stored time moves d into the past (an entry older than
\* its ttl stays expired, whatever its age)
CachePass(d) ==
    /\ cacheFiles' = [k \in CacheKeys |->
          IF cacheFiles[k].kind = "entry"
            THEN [cacheFiles[k] EXCEPT
                    !.timestamp = Max(@ - d, -Ttl(cacheFiles[k]))]
            ELSE cacheFiles[k]]
    /\ callers' = [c \in Callers |->
          IF callers[c].pc = "writeFile"
            THEN [callers[c] EXCEPT
                    !.stamp = Max(@ - d, -Ttl(CacheData(@, <<>>, TtlArg(callers[c]))))]
            ELSE callers[c]]
    /\ UNCHANGED <<fsFaulty, cacheDir>>

TickCache == CachePass(TickMs)

ResolveNext ==
    \/ \E c \in Callers, p \in ResolveProjects, b \in BOOLEAN, t \in Filters :
          CallGetEnvVars(c, p, b, t)
    \/ \E c \in Callers, l \in Limits : CallGetProjectsList(c, l)
    \/ \E c \in Callers, ok \in FsOutcomes : ReadFile(c, ok)
    \/ \E c \in Callers, ok \in FsOutcomes : Unlink(c, ok)
    \/ \E c \in Callers, ok \in BOOLEAN : ListResponds(c, ok)
    \/ \E c \in Callers, ok \in BOOLEAN, n \in 0..NumServerProjects :
          PageResponds(c, ok, n)
    \/ \E c \in Callers, ok \in FsOutcomes : Mkdir(c, ok)
    \/ \E c \in Callers, ok \in BOOLEAN, broken \in BOOLEAN :
          WriteFile(c, ok, broken)
    \/ \E c \in Callers, i \in 1..Len(ServerEnvs), ok \in BOOLEAN :
          DetailSettles(c, i, ok)
    \/ \E c \in Callers : CallClearCache(c)
    \/ \E c \in Callers, ok \in FsOutcomes : Access(c, ok)
    \/ \E c \in Callers, ok \in FsOutcomes, kept \in SUBSET CacheKeys :
          Rm(c, ok, kept)
    \/ \E c \in Callers, ok \in FsOutcomes : MkdirCache(c, ok)
    \/ TickCache

\* ------------------------------------------- the search over the executor
\* number of projects handed to the search (more than PROJECT_CONCURRENCY)
NumFanProjects == 6

FanProjects == 1..NumFanProjects
\* the request(endpoint, options, attempt) invocations of the list request of
\* every project's getEnvVars
FanFrames == FanProjects \X Attempts

\* the list getEnvVars gives a task: one variable, whose value is the query
FanEnvLists == {<<[key |-> 1, value |-> valueQuery]>>}

\* searchByValueInProjects has run up to `await Promise.all(searchTasks)`,
\* on a fresh VercelAPI and a cache without entries
InitFanOut ==
    /\ InitExecutor
    /\ hasToken
    /\ queue = <<>>
    /\ pc = [f \in FanFrames |-> "idle"]
    /\ valueQuery = <<<<"s", "lower">>>>
    /\ searchState = "running"
    /\ fanActive = 0
    /\ fanQueue = [p \in FanProjects |-> p]
    /\ taskPc = [p \in FanProjects |-> "queued"]
    /\ taskOut = [p \in FanProjects |-> Pending]
    /\ resolved = [p \in FanProjects |-> Unresolved]
    /\ searchedCount = 0
    /\ results = <<>>

\* the frames of project p that hold a permit of this.limit
FanPermits(p) == {a \in Attempts : HoldsPermit(<<p, a>>)}

\* no promise continuation is pending: neither p-limit can start a function
FanQuiescent ==
    /\ ~CanStart
    /\ ~(fanActive < PROJECT_CONCURRENCY /\ fanQueue # <<>>)

\* the p-limit of the search starts the next task; its getEnvVars misses the
\* cache and calls this.request for the list, which queues at this.limit
FanTaskStart ==
    /\ TaskStart
    /\ pc' = [pc EXCEPT ![<<Head(fanQueue), 1>>] = "queued"]
    /\ queue' = Append(queue, <<Head(fanQueue), 1>>)
    /\ UNCHANGED <<lastRequestTime, hasToken, activeCount, wakeAt, caught, res,
                   netAttempts, delays, all429, lastStart, minGap>>

\* this.limit starts the function at the head of its queue, which runs (past
\* the wait of enforceRateLimit) to fetch()
ListRequestStarts ==
    /\ CanStart
    /\ queue' = Tail(queue)
    /\ pc' = [pc EXCEPT ![Head(queue)] = "fetching"]
    /\ activeCount' = activeCount + 1
    /\ UNCHANGED <<lastRequestTime, hasToken, wakeAt, caught, res, netAttempts,
                   delays, all429, lastStart, minGap>>
    /\ UNCHANGED searchVars

\* a 429 below retryAttempts: after the backoff sleep the function calls
\* this.request(endpoint, options, attempt + 1), which queues at this.limit,
\* and awaits it
ListRequestRetries(f) ==
    /\ FanQuiescent
    /\ pc[f] = "fetching"
    /\ RateLimitRetries(f[2], 429)
    /\ pc' = [pc EXCEPT ![f] = "nested429", ![Inner(f)] = "queued"]
    /\ queue' = Append(queue, Inner(f))
    /\ UNCHANGED <<lastRequestTime, hasToken, activeCount, wakeAt, caught, res,
                   netAttempts, delays, all429, lastStart, minGap>>
    /\ UNCHANGED searchVars

\* the request settles for good (a 200, or an error that is not retried: a
\* 429 at the last attempt, another status, a failed fetch): the
\* frame and the frames awaiting it settle and give their permits back, and
\* getEnvVars resolves with a list or rejects
ListRequestSettles(f, ok, envVars) ==
    /\ FanQuiescent
    /\ pc[f] = "fetching"
    /\ pc' = [g \in FanFrames |->
                IF g[1] = f[1] /\ g[2] <= f[2] THEN "settled" ELSE pc[g]]
    /\ activeCount' = activeCount - Cardinality(FanPermits(f[1]))
    /\ IF ok THEN TaskResolved(f[1], envVars) ELSE TaskFailed(f[1])
    /\ UNCHANGED <<lastRequestTime, hasToken, queue, wakeAt, caught, res,
                   netAttempts, delays, all429, lastStart, minGap>>

FanOutNext ==
    \/ FanTaskStart
    \/ ListRequestStarts
    \/ \E f \in FanFrames : ListRequestRetries(f)
    \/ \E f \in FanFrames, ok \in BOOLEAN, envVars \in FanEnvLists :
          ListRequestSettles(f, ok, envVars)
    \/ AwaitAll /\ UNCHANGED execVars

\* --------------------------------------- detail fetches of concurrent calls
\* number of getEnvVars(project, true, null) calls running at once (tasks of
\* the search), and number of variables of each project
NumResolving == 2
NumSecrets == 4

Resolving == 1..NumResolving
\* the list of a project whose variables are all encrypted and have an id
SecretEnvs ==
    [i \in 1..NumSecrets |->
        [id |-> 10 + i, key |-> "SECRET", value |-> "", type |-> "encrypted",
         target |-> {"production"}]]

\* the calls have run up to the readFile of getCache; every project has a
\* fresh entry
InitDetails ==
    /\ cacheFiles = [k \in {EnvKey(p, TRUE) : p \in Resolving} |->
                        CacheData(now, SecretEnvs, ENV_CACHE_TTL)]
    /\ callers = [c \in Resolving |->
                     [IdleCaller EXCEPT !.op = "getEnvVars", !.pc = "readFile",
                                        !.key = EnvKey(c, TRUE),
                                        !.includeValues = TRUE]]
    /\ fsFaulty = FALSE
    /\ cacheDir = TRUE

\* the detail tasks of call c that detailLimit started in this step, in the
\* order of the list: each has called getEnvVarDetails, whose this.request
\* queues at this.limit
RECURSIVE DetailRequests(_, _, _, _)
DetailRequests(c, before, after, i) ==
    IF i > Len(after) THEN <<>>
    ELSE (IF after[i] = "inflight" /\ (i > Len(before) \/ before[i] # "inflight")
            THEN <<(<<c, i>>)>> ELSE <<>>)
         \o DetailRequests(c, before, after, i + 1)

\* the detail requests that wait at this.limit, and those that hold one of
\* its permits
WaitsForPermit(c, i) == \E n \in DOMAIN queue : queue[n] = <<c, i>>
HoldsDetailPermit(c, i) ==
    /\ i \in DOMAIN callers[c].detail
    /\ callers[c].detail[i] = "inflight"
    /\ ~WaitsForPermit(c, i)

\* getCache of call c hits; getEnvVars runs up to Promise.all(detailPromises)
DetailsBegin(c) ==
    /\ ~CanStart
    /\ ReadFile(c, TRUE)
    /\ queue' = queue \o DetailRequests(c, callers[c].detail, callers'[c].detail, 1)
    /\ UNCHANGED <<lastRequestTime, hasToken, activeCount, pc, wakeAt, caught,
                   res, netAttempts, delays, all429, lastStart, minGap>>

\* this.limit (p-limit) starts the detail request at the head of its queue
DetailRequestStarts ==
    /\ CanStart
    /\ queue' = Tail(queue)
    /\ activeCount' = activeCount + 1
    /\ UNCHANGED <<lastRequestTime, hasToken, pc, wakeAt, caught, res,
                   netAttempts, delays, all429, lastStart, minGap>>
    /\ UNCHANGED resolveVars

\* the detail request of variable i of call c settles and gives its permit
\* back; the task settles, and detailLimit starts the next task of the call
DetailRequestSettles(c, i, ok) ==
    /\ ~CanStart
    /\ HoldsDetailPermit(c, i)
    /\ DetailSettles(c, i, ok)
    /\ activeCount' = activeCount - 1
    /\ queue' = queue \o DetailRequests(c, callers[c].detail, callers'[c].detail, 1)
    /\ UNCHANGED <<lastRequestTime, hasToken, pc, wakeAt, caught, res,
                   netAttempts, delays, all429, lastStart, minGap>>

DetailsNext ==
    \/ \E c \in Resolving : DetailsBegin(c)
    \/ DetailRequestStarts
    \/ \E c \in Resolving, i \in 1..NumSecrets, ok \in BOOLEAN :
          DetailRequestSettles(c, i, ok)

\* ------------------------------------------------------------ login, logout
\* no token (undefined, '')
NoToken == 0
\* the tokens a user may give; the server accepts those of ValidTokens
Tokens == {1, 2}
ValidTokens == {1}

\* Config.getToken(): process.env.VERCEL_TOKEN if set, else the token of
\* config.json (undefined when the file is absent, unparsable or without one)
GetToken == IF envToken # NoToken THEN envToken ELSE configFile

IdleAuth ==
    [op |-> "none", pc |-> "idle",
     token |-> NoToken,      \* login: token
     isValid |-> FALSE,      \* login: isValid
     error |-> "none"]       \* what the call raised

\* no login or logout runs; config.json holds a token if getToken gives one
InitAuthIdle ==
    /\ envToken = NoToken
    /\ configFile = IF hasToken THEN 1 ELSE NoToken
    /\ auth = IdleAuth

\* the cache as earlier runs may have left it: empty, or holding the entries
\* of the variable lists of a project
StoredCaches ==
    {[k \in CacheKeys |-> NoFile],
     [k \in CacheKeys |->
        IF k \in {EnvKey(p, b) : p \in ResolveProjects, b \in BOOLEAN}
          THEN CacheData(now, ServerEnvs, ENV_CACHE_TTL) ELSE NoFile]}

\* a process starts: the token config.json and the environment hold, the
\* cache earlier runs left
InitAuth ==
    /\ InitIdle
    /\ envToken \in {NoToken, 1}
    /\ configFile \in {NoToken} \cup Tokens
    /\ hasToken = (GetToken # NoToken)
    /\ auth = IdleAuth
    /\ callers = [c \in Callers |-> IdleCaller]
    /\ fsFaulty \in BOOLEAN
    /\ cacheDir \in BOOLEAN
    /\ cacheFiles \in StoredCaches
    /\ cacheDir \/ cacheFiles = [k \in CacheKeys |-> NoFile]

\* no login or logout is running, and no request
AuthIdle == auth.pc \in {"idle", "returned", "raised"}
NoRequestRuns == \A f \in Frames : pc[f] \in {"idle", "settled"}

AuthRaised(rec, e) == [rec EXCEPT !.pc = "raised", !.error = e]

\* login(providedToken), the token given or typed at the prompt: without one
\* it throws 'Token is required', else it runs up to the fetch of
\* validateToken
CallLogin(t) ==
    /\ AuthIdle
    /\ NoRequestRuns
    /\ auth' = IF t = NoToken
                 THEN AuthRaised([IdleAuth EXCEPT !.op = "login"], "Token is required")
                 ELSE [IdleAuth EXCEPT !.op = "login", !.pc = "validate", !.token = t]
    /\ UNCHANGED <<configFile, envToken, execVars, resolveVars>>

\* login after validateToken, had it no `if (!isValid)`
OnValidatedIgnored(rec, isValid) == [rec EXCEPT !.pc = "load", !.isValid = isValid]
\* login after `isValid = await this.api.validateToken(token)`: it throws
\* 'Invalid token...' or goes on to setToken, whose load() begins
OnValidated(rec, isValid) ==
    IF isValid THEN [rec EXCEPT !.pc = "load", !.isValid = TRUE]
    ELSE AuthRaised(rec, "Invalid token")

\* the fetch of validateToken settles: `return response.ok`, and `catch
\* { return false; }` when the server was not reached
ValidateSettles(reached, responseOk) ==
    /\ auth.pc = "validate"
    /\ responseOk => reached /\ auth.token \in ValidTokens
    /\ auth' = OnValidated(auth, reached /\ responseOk)
    /\ UNCHANGED <<configFile, envToken, execVars, resolveVars>>

\* a logout() call: clearToken runs up to its load()
CallLogout ==
    /\ AuthIdle
    /\ NoRequestRuns
    /\ auth' = [IdleAuth EXCEPT !.op = "logout", !.pc = "load"]
    /\ UNCHANGED <<configFile, envToken, execVars, resolveVars>>

\* load() of setToken / clearToken settled: ensureConfigDir made the
\* directories if it could, the file was read (a failure gives {}); save()
\* begins
LoadSettles(fsOk) ==
    /\ auth.pc = "load"
    /\ fsOk \in FsOutcomes
    /\ cacheDir' = (cacheDir \/ fsOk)
    /\ auth' = [auth EXCEPT !.pc = "save"]
    /\ UNCHANGED <<configFile, envToken, execVars, cacheFiles, callers, fsFaulty>>

\* save() settled: the file holds the config with the token set (setToken)
\* or deleted (clearToken), or writeFile failed and 'Failed to save config'
\* is thrown.  login then returns; logout goes on to clearCache(), which
\* runs up to its access
SaveSettles(dirOk, fileOk) ==
    /\ auth.pc = "save"
    /\ dirOk \in FsOutcomes
    /\ fileOk \in FsOutcomes
    /\ cacheDir' = (cacheDir \/ dirOk)
    /\ configFile' = IF ~fileOk THEN configFile
                     ELSE IF auth.op = "login" THEN auth.token ELSE NoToken
    /\ hasToken' = (envToken # NoToken \/ configFile' # NoToken)
    /\ auth' = IF ~fileOk THEN AuthRaised(auth, "Failed to save config")
               ELSE IF auth.op = "login" THEN [auth EXCEPT !.pc = "returned"]
               ELSE [auth EXCEPT !.pc = "clearCache"]
    /\ callers' = IF fileOk /\ auth.op = "logout"
                    THEN [callers EXCEPT ![1] =
                            [IdleCaller EXCEPT !.op = "clearCache", !.pc = "access"]]
                    ELSE callers
    /\ UNCHANGED <<envToken, cacheFiles, fsFaulty, lastRequestTime, activeCount,
                   queue, pc, wakeAt, caught, res, netAttempts, delays, all429,
                   lastStart, minGap>>

\* a file operation of logout's clearCache settles; when clearCache returns,
\* logout prints 'Successfully logged out and cleared all data.' and returns
ClearCacheSettles(fsOk, kept) ==
    /\ auth.pc = "clearCache"
    /\ fsOk \in FsOutcomes
    /\ \/ kept = {} /\ Access(1, fsOk)
       \/ Rm(1, fsOk, kept)
       \/ kept = {} /\ MkdirCache(1, fsOk)
    /\ auth' = IF callers'[1].pc = "returned"
                 THEN [auth EXCEPT !.pc = "returned"] ELSE auth
    /\ UNCHANGED <<configFile, envToken, execVars>>

\* the request of a command that runs with no login or logout in progress
\* (being the only one, it never sleeps in enforceRateLimit: its retries come
\* retryDelayMs or more after the attempt before)
AuthRequestNext ==
    /\ AuthIdle
    /\ \/ Issue(1)
       \/ Start
       \/ \E f \in Frames, s \in Statuses, m \in BOOLEAN : Respond(f, s, m)
       \/ \E f \in Frames, m \in BOOLEAN : TransportFail(f, m)
       \/ \E f \in Frames : WakeBackoff(f)
       \/ \E f \in Frames : Propagate(f)
       \/ TickTimer
       \/ TickGranule
    /\ UNCHANGED <<resolveVars, authVars>>

AuthNext ==
    \/ \E t \in {NoToken} \cup Tokens : CallLogin(t)
    \/ \E reached, responseOk \in BOOLEAN : ValidateSettles(reached, responseOk)
    \/ CallLogout
    \/ \E fsOk \in BOOLEAN : LoadSettles(fsOk)
    \/ \E dirOk, fileOk \in BOOLEAN : SaveSettles(dirOk, fileOk)
    \/ \E fsOk \in BOOLEAN, kept \in SUBSET CacheKeys : ClearCacheSettles(fsOk, kept)
    \/ AuthRequestNext

\* ------------------------------------------------------ askProjectSelection
\* most projects listed
MaxListed == 4

\* a keypress event: key.name, key.ctrl, key.sequence
Key(name, ctrl, sequence) == [name |-> name, ctrl |-> ctrl, sequence |-> sequence]
NoKey == Key("", FALSE, "")
KeyEvents ==
    {Key("up", FALSE, "ESC[A"), Key("down", FALSE, "ESC[B"),
     Key("space", FALSE, " "), Key("return", FALSE, "CR"),
     Key("enter", FALSE, "LF"), Key("c", TRUE, "ETX"), Key("c", FALSE, "c"),
     Key("a", FALSE, "a"), Key("a", FALSE, "A"), Key("a", TRUE, "SOH"),
     Key("x", FALSE, "x")}

\* the ids a Set holds
Members(set) == {set[i] : i \in DOMAIN set}
\* projects[index].id: project i of the list has id i
ProjectAt(index) == index + 1

\* Math.max(0, cursor - 1)
CursorUp(index) == Max(0, index - 1)
\* cursor + 1, not bounded by the list
CursorDownUnbounded(index) == index + 1
\* Math.min(projects.length - 1, cursor + 1)
CursorDown(index) == Min(projectCount - 1, index + 1)

\* the Space branch, adding the id only
ToggleSticky(set, id) == IF id \in Members(set) THEN set ELSE Append(set, id)
\* if (selected.has(project.id)) selected.delete(project.id)
\* else selected.add(project.id)
Toggle(set, id) ==
    IF id \in Members(set) THEN SelectSeq(set, LAMBDA x : x # id)
    ELSE Append(set, id)

RECURSIVE AddFrom(_, _)
\* projects.forEach(p => selected.add(p.id)), from project id on
AddFrom(set, id) ==
    IF id > projectCount THEN set
    ELSE AddFrom(IF id \in Members(set) THEN set ELSE Append(set, id), id + 1)
\* if (selected.size === projects.length) selected.clear()
\* else projects.forEach(p => selected.add(p.id))
ToggleAll(set) == IF Len(set) = projectCount THEN <<>> ELSE AddFrom(set, 1)

\* no selection was asked for
InitSelectIdle ==
    /\ projectCount = 0
    /\ cursor = 0
    /\ selected = <<>>
    /\ selection = "none"
    /\ chosen = <<>>
    /\ lastKey = NoKey
    /\ previous = {}

\* askProjectSelection(projects) has listed the projects (main calls it with
\* one project at least) and listens to the keys
InitSelect ==
    /\ projectCount \in 1..MaxListed
    /\ cursor = 0
    /\ selected = <<>>
    /\ selection = "selecting"
    /\ chosen = <<>>
    /\ lastKey = NoKey
    /\ previous = {}

\* keyHandler(str, key): Ctrl+C rejects, Enter resolves with the selection
\* (both remove the listener); else the Space, up, down and A tests run one
\* after the other
KeyHandler(key) ==
    /\ selection = "selecting"
    /\ lastKey' = key
    /\ previous' = Members(selected)
    /\ IF key.name = "c" /\ key.ctrl
         THEN /\ selection' = "cancelled"
              /\ UNCHANGED <<cursor, selected, chosen>>
         ELSE IF key.name \in {"return", "enter"}
         THEN /\ selection' = "confirmed"
              /\ chosen' = selected
              /\ UNCHANGED <<cursor, selected>>
         ELSE LET afterSpace == IF key.name = "space"
                                  THEN Toggle(selected, ProjectAt(cursor))
                                  ELSE selected
                  afterUp == IF key.name = "up" THEN CursorUp(cursor) ELSE cursor
                  afterDown == IF key.name = "down" THEN CursorDown(afterUp)
                               ELSE afterUp
              IN  /\ cursor' = afterDown
                  /\ selected' = IF key.sequence \in {"a", "A"}
                                   THEN ToggleAll(afterSpace) ELSE afterSpace
                  /\ UNCHANGED <<selection, chosen>>
    /\ UNCHANGED projectCount

SelectNext == \E key \in KeyEvents : KeyHandler(key)

\* ---------------------------------------------------------- specifications
Init == InitIdle /\ InitSearchIdle /\ InitResolveIdle /\ InitAuthIdle
    /\ InitSelectIdle
Next == ExecutorNext /\ UNCHANGED <<searchVars, resolveVars, authVars, selectVars>>
\* the request executor, its callers issuing requests at any time
Spec == Init /\ [][Next]_vars

InitBurst ==
    InitBurstCalls /\ InitSearchIdle /\ InitResolveIdle /\ InitAuthIdle
    /\ InitSelectIdle
NextBurst == BurstNext /\ UNCHANGED <<searchVars, resolveVars, authVars, selectVars>>
\* the request executor under a burst of concurrent requests
SpecBurst == InitBurst /\ [][NextBurst]_vars

NextSequential ==
    SequentialNext /\ UNCHANGED <<searchVars, resolveVars, authVars, selectVars>>
\* the request executor under a caller that issues its requests one after
\* another
SpecSequential == Init /\ [][NextSequential]_vars

InitAuthRun == InitAuth /\ InitSearchIdle /\ InitSelectIdle
NextAuth == AuthNext /\ UNCHANGED <<searchVars, selectVars>>
\* login, logout and the requests of the commands run between them
SpecAuth == InitAuthRun /\ [][NextAuth]_vars

InitSelectRun ==
    InitIdle /\ InitSearchIdle /\ InitResolveIdle /\ InitAuthIdle /\ InitSelect
NextSelect ==
    SelectNext /\ UNCHANGED <<execVars, searchVars, resolveVars, authVars>>
\* the interactive project selection under any sequence of key events
SpecSelect == InitSelectRun /\ [][NextSelect]_vars

InitSearchRun == InitSearch /\ InitResolveIdle /\ InitAuthIdle
    /\ InitSelectIdle
NextSearch == SearchNext /\ UNCHANGED <<execVars, resolveVars, authVars, selectVars>>
\* one run of the search, getEnvVars being its environment
SpecSearch == InitSearchRun /\ [][NextSearch]_vars

InitResolve ==
    InitIdle /\ hasToken /\ InitSearchIdle /\ InitCache /\ InitAuthIdle
    /\ InitSelectIdle
NextResolve == ResolveNext /\ UNCHANGED <<execVars, searchVars, authVars, selectVars>>
\* getEnvVars and getProjectsList over the cache, this.request and the file
\* system being their environment
SpecResolve == InitResolve /\ [][NextResolve]_vars

InitFanOutRun == InitFanOut /\ InitResolveIdle /\ InitAuthIdle
    /\ InitSelectIdle
NextFanOut == FanOutNext /\ UNCHANGED <<resolveVars, authVars, selectVars>>
\* the search over more projects than PROJECT_CONCURRENCY, the list request
\* of every task going through this.limit; every step that can be taken is
\* taken in the end (promise jobs run, timers fire, the server answers)
SpecFanOut == InitFanOutRun /\ [][NextFanOut]_vars /\ WF_vars(NextFanOut)

InitPages ==
    InitIdle /\ hasToken /\ InitSearchIdle /\ InitResolveIdle /\ InitAuthIdle
    /\ InitSelectIdle
NextPages == PagesNext /\ UNCHANGED <<execVars, searchVars, authVars, selectVars>>
\* getProjects against a server that splits its list into pages as it likes
\* and may answer with an empty page and the same cursor; every request is
\* answered in the end
SpecPages == InitPages /\ [][NextPages]_vars /\ WF_vars(NextPages)

InitDetailsRun ==
    InitIdle /\ hasToken /\ InitSearchIdle /\ InitDetails /\ InitAuthIdle
    /\ InitSelectIdle
NextDetails == DetailsNext /\ UNCHANGED <<searchVars, authVars, selectVars>>
\* the detail fetches of getEnvVars calls that run at once, this.limit
\* granting their requests its permits
SpecDetails == InitDetailsRun /\ [][NextDetails]_vars

TypeOK ==
    /\ activeCount \in 0..(maxConcurrent + 1)
    /\ \A f \in Frames : pc[f] \in {"idle", "queued", "rateWait", "fetching",
                                    "settled"} \cup BackoffPcs \cup NestedPcs

\* ------------------------------------------------------------------ claims
Fetching == {f \in Frames : pc[f] = "fetching"}
Holders == {f \in Frames : HoldsPermit(f)}
AllSettled == \A c \in Calls : pc[<<c, 1>>] \in {"idle", "settled"}

\* the value contains the query as a substring, letters compared without
\* regard to case
ContainsIgnoringCase(value, q) ==
    \E i \in 0..(Len(value) - Len(q)) :
        \A k \in 1..Len(q) : value[i + k][1] = q[k][1]
IsHit(env) == env.value # <<>> /\ ContainsIgnoringCase(env.value, valueQuery)
\* the matching variables of a project, in the order getEnvVars gave them
HitsOf(p) ==
    IF resolved[p] \in {Failed, Unresolved} THEN <<>>
    ELSE SelectSeq(resolved[p], IsHit)
ReportedProjects == {results[i].project : i \in DOMAIN results}

\* C1: whichever projects fail to resolve, the search does not raise, runs
\* every task to completion and reports the matches of every project that
\* resolved; a failing project contributes no MatchResult
C1_Isolation ==
    /\ searchState # "raised"
    /\ searchState = "done" =>
         /\ \A p \in Projects : taskPc[p] = "done"
         /\ \A p \in Projects : resolved[p] = Failed => p \notin ReportedProjects
         /\ \A p \in Projects : resolved[p] # Failed /\ HitsOf(p) # <<>> =>
               \E i \in DOMAIN results :
                   results[i] = [project |-> p, matches |-> HitsOf(p)]
C1_Witness ==
    /\ searchState = "done"
    /\ \E p \in Projects :
         /\ resolved[p] = Failed
         /\ ReportedProjects = Projects \ {p}

\* C2: the search reports exactly one MatchResult per project that has a
\* variable whose non-empty value contains the query, case ignored; it holds
\* exactly those variables, in list order; no other project is reported
C2_ExactMatches ==
    searchState = "done" =>
        LET hit == {p \in Projects : HitsOf(p) # <<>>}
        IN  /\ Len(results) = Cardinality(hit)
            /\ ReportedProjects = hit
            /\ \A i \in DOMAIN results :
                  results[i].matches = HitsOf(results[i].project)
C2_Witness ==
    /\ searchState = "done"
    /\ Len(results) = 2
    /\ \A i \in DOMAIN results : Len(results[i].matches) = 1
    /\ \E i \in DOMAIN results :
         /\ Len(resolved[results[i].project]) = 2
         /\ results[i].matches[1].value # valueQuery
         /\ Len(results[i].matches[1].value) = Len(valueQuery)

\* C3: any two network calls that proceed start at least minDelayMs apart
C3_StartsSpaced == minGap >= minDelayMs

\* C4: never more than maxConcurrent permits outstanding, so never more than
\* maxConcurrent network calls in flight
C4_PermitBound ==
    /\ activeCount <= maxConcurrent
    /\ Cardinality(Fetching) <= maxConcurrent
C4_Witness == activeCount = maxConcurrent /\ queue # <<>>

\* C5: the limiter never reaches a state in which every permit is held by a
\* request that is itself waiting for a permit
C5_NoPermitDeadlock ==
    ~ /\ activeCount = maxConcurrent
      /\ queue # <<>>
      /\ \A f \in Holders :
            pc[f] \in NestedPcs /\ pc[Inner(f)] \in NestedPcs \cup {"queued"}

\* C6: every permit is released exactly once on every exit path: the count of
\* outstanding permits is the number of running frames, and it is 0 whenever
\* all issued requests have settled
C6_PermitsReleased ==
    /\ activeCount = Cardinality(Holders)
    /\ AllSettled => activeCount = 0
C6_Witness ==
    /\ AllSettled
    /\ \E c \in Calls : res[<<c, 1>>].kind = "ApiError" /\ netAttempts[c] = 3
    /\ \E c \in Calls : res[<<c, 1>>].kind = "NetworkError"

\* C7: a permit is held only by a request that is about to make, or is
\* making, its network call; never through a backoff sleep or the wait for
\* the next attempt
C7_NoPermitWhileWaiting ==
    activeCount <= Cardinality({f \in Frames : pc[f] \in {"rateWait", "fetching"}})

\* C8: one executor call makes at most retryAttempts network attempts,
\* whatever mix of 429 responses and transport failures it meets
C8_AttemptBound == \A c \in Calls : netAttempts[c] <= retryAttempts
C8_Witness ==
    \E c \in Calls :
        /\ pc[<<c, 1>>] = "nested429"
        /\ pc[<<c, 2>>] = "nestedCatch"
        /\ pc[<<c, 3>>] = "settled"
        /\ res[<<c, 3>>].kind = "NetworkError" /\ res[<<c, 3>>].msg
        /\ netAttempts[c] = 3

\* C9: the wait before the Nth retry is retryDelayMs * 2^(N-1): 1000 ms, then
\* 2000 ms, after a 429 and after a transport failure alike
C9_BackoffDelays ==
    /\ \A c \in Calls : \A n \in 1..Len(delays[c]) :
          /\ delays[c][n] = retryDelayMs * Pow2(n - 1)
          /\ n = 1 => delays[c][n] = 1000
          /\ n = 2 => delays[c][n] = 2000
    /\ \A f \in Frames : pc[f] \in BackoffPcs =>
          /\ Len(delays[f[1]]) = f[2]
          /\ wakeAt[f] <= retryDelayMs * Pow2(f[2] - 1)
C9_Witness ==
    \E c \in Calls, d \in Calls :
        /\ pc[<<c, 1>>] = "nested429"
        /\ pc[<<c, 2>>] = "backoff429" /\ wakeAt[<<c, 2>>] = 2000
        /\ pc[<<d, 2>>] = "backoffCatch" /\ caught[<<d, 2>>].kind = "NetworkError"

\* C10: a non-2xx response other than 429 is never retried
C10_ApiErrorNotRetried ==
    \A f \in Frames : pc[f] = "backoffCatch" => caught[f].kind # "ApiError"

\* C11: a request that gets a 429 at every attempt makes exactly retryAttempts
\* attempts; the third 429 is thrown as the ApiError of status 429, with no
\* backoff sleep after it, and the call settles with that error and no other
C11_Exhausted429 ==
    \A c \in Calls :
        /\ pc[<<c, retryAttempts>>] \notin BackoffPcs \cup NestedPcs
        /\ all429[c] /\ netAttempts[c] >= 1 =>
              /\ netAttempts[c] = retryAttempts
                 /\ pc[<<c, retryAttempts>>] # "fetching" =>
                    /\ pc[<<c, retryAttempts>>] = "settled"
                    /\ res[<<c, retryAttempts>>].kind = "ApiError"
                    /\ res[<<c, retryAttempts>>].status = 429
                    /\ delays[c] = <<1000, 2000>>
              /\ pc[<<c, 1>>] = "settled" =>
                    /\ netAttempts[c] = retryAttempts
                    /\ res[<<c, 1>>].kind = "ApiError"
                    /\ res[<<c, 1>>].status = 429
C11_Witness ==
    \E c \in Calls :
        /\ all429[c]
        /\ pc[<<c, 1>>] = "settled"
        /\ res[<<c, 1>>].status = 429
        /\ netAttempts[c] = 3

\* C12: a transport failure reaches the caller only from the final attempt:
\* below retryAttempts it is retried, whatever its message
C12_TransportRetried ==
    \A c \in Calls :
        res[<<c, 1>>].kind = "NetworkError" => netAttempts[c] = retryAttempts

\* C13: without a credential a call makes no network call and no retry, fails
\* with the missing-credential error and leaves no permit outstanding
C13_NoCredential ==
    ~hasToken =>
        /\ \A c \in Calls :
              /\ netAttempts[c] = 0
              /\ delays[c] = <<>>
              /\ pc[<<c, 1>>] \in {"idle", "queued", "rateWait", "settled"}
              /\ pc[<<c, 1>>] = "settled" => res[<<c, 1>>] = AuthError
              /\ \A a \in Attempts : a > 1 => pc[<<c, a>>] = "idle"
        /\ activeCount = Cardinality(Holders)
        /\ AllSettled => activeCount = 0
C13_Witness ==
    /\ ~hasToken
    /\ \A c \in 1..IssuedCalls : pc[<<c, 1>>] = "settled" /\ res[<<c, 1>>] = AuthError
    /\ activeCount = 0

\* the getCache of caller c ends its readFile / its unlink in this step
ReadEnds(c) == callers[c].pc = "readFile" /\ callers'[c].pc # "readFile"
UnlinkEnds(c) == callers[c].pc = "unlink" /\ callers'[c].pc # "unlink"
WriteEnds(c) == callers[c].pc = "writeFile" /\ callers'[c].pc # "writeFile"
\* the age of an entry
Age(cache) == now - cache.timestamp
EnvKeys == {EnvKey(p, b) : p \in ResolveProjects, b \in BOOLEAN}

\* C14: get returns the stored payload exactly when the file holds an entry
\* with now - timestamp < ttl (the ttl given to set, or one hour); otherwise
\* it reports a miss, and an expired entry is removed by that get (file
\* operations working)
C14_GetContract ==
    [][\A c \in Callers :
         LET cache == cacheFiles[callers[c].key]
             valid == /\ cache.kind = "entry"
                      /\ Age(cache) < (IF cache.ttl = NoTtl THEN 60 * 60 * 1000
                                       ELSE cache.ttl)
         IN  /\ ReadEnds(c) =>
                  /\ callers'[c].hit => valid /\ callers'[c].cached = cache.data
                  /\ valid /\ ~fsFaulty => callers'[c].hit
                  /\ cache.kind = "entry" /\ ~valid /\ ~fsFaulty =>
                        callers'[c].pc = "unlink"
             /\ UnlinkEnds(c) =>
                  /\ ~callers'[c].hit
                  /\ ~fsFaulty => cacheFiles'[callers[c].key] = NoFile
      ]_vars
C14_Witness ==
    \E c \in Callers :
        /\ ~fsFaulty
        /\ callers[c].pc = "unlink"
        /\ cacheFiles[callers[c].key].kind = "entry"
        /\ cacheFiles[callers[c].key].ttl = ENV_CACHE_TTL
        /\ Age(cacheFiles[callers[c].key]) = ENV_CACHE_TTL
        /\ \E k \in CacheKeys :
              /\ cacheFiles[k].ttl = NoTtl
              /\ cacheFiles[k].kind = "entry"
              /\ Age(cacheFiles[k]) < DefaultTtlMs

\* C15: every entry under an envvars key is the raw list of the list
\* endpoint: unfiltered, and holding no value of a detail fetch
C15_RawCached ==
    \A k \in EnvKeys :
        cacheFiles[k].kind = "entry" =>
            /\ cacheFiles[k].data = ServerEnvs
            /\ \A i \in DOMAIN cacheFiles[k].data :
                  cacheFiles[k].data[i].value # DetailValue(cacheFiles[k].data[i].id)
C15_Witness ==
    \E c \in Callers :
        /\ callers[c].op = "getEnvVars"
        /\ callers[c].pc = "returned"
        /\ callers[c].hit
        /\ \E i \in DOMAIN callers[c].out : callers[c].out[i].value = "sk_live"
        /\ cacheFiles[callers[c].key].kind = "entry"

\* C16: a resolve with a target filter returns only variables of that
\* target, served from the cache or not, and the entry a miss writes is the
\* unfiltered list
C16_FilterAfterCache ==
    /\ \A c \in Callers :
          callers[c].pc = "returned" /\ callers[c].op = "getEnvVars"
          /\ callers[c].targetFilter # "" =>
              \A i \in DOMAIN callers[c].out :
                  callers[c].targetFilter \in callers[c].out[i].target
    /\ \A k \in EnvKeys :
          cacheFiles[k].kind = "entry" =>
              /\ Len(cacheFiles[k].data) = Len(ServerEnvs)
              /\ \E i \in DOMAIN cacheFiles[k].data :
                    "production" \notin cacheFiles[k].data[i].target
C16_Witness ==
    \E c \in Callers :
        /\ callers[c].pc = "returned"
        /\ callers[c].hit
        /\ callers[c].targetFilter = "production"
        /\ Len(callers[c].out) = 3
        /\ Len(cacheFiles[callers[c].key].data) = Len(ServerEnvs)

\* what resolve gives for the server's data: the variables of the target,
\* those whose detail fetch succeeded with a value carrying that value
ExpectedEnvVars(includeValues, targetFilter, detail) ==
    LET wanted == SelectSeq(ServerEnvs,
                      LAMBDA env : targetFilter = "" \/ targetFilter \in env.target)
    IN  [i \in DOMAIN wanted |->
           IF /\ includeValues
              /\ wanted[i].type = "encrypted" \/ wanted[i].value = ""
              /\ detail[i] = "ok"
              /\ DetailValue(wanted[i].id) # ""
             THEN [wanted[i] EXCEPT !.value = DetailValue(wanted[i].id)]
             ELSE wanted[i]]
ExpectedProjects(limit) ==
    SubSeq(ServerProjects, 1, Min(limit, Len(ServerProjects)))

\* C17: what a call returns is determined by the server's data, its
\* arguments and the outcomes of its detail fetches: the same on a cache
\* hit, on a miss, and when every cache read and write fails
C17_CacheTransparent ==
    \A c \in Callers :
        callers[c].pc = "returned" =>
            /\ callers[c].op = "getEnvVars" =>
                  /\ Len(callers[c].detail) = Len(callers[c].out)
                  /\ callers[c].out = ExpectedEnvVars(callers[c].includeValues,
                                                      callers[c].targetFilter,
                                                      callers[c].detail)
            /\ callers[c].op = "getProjectsList" =>
                  callers[c].out = ExpectedProjects(callers[c].limit)
C17_Witness ==
    \E c \in Callers :
        /\ callers[c].pc = "returned"
        /\ callers[c].hit
        /\ callers[c].includeValues
        /\ callers[c].targetFilter = "preview"
        /\ callers[c].detail = <<"ok", "failed", "null">>
        /\ callers[c].out[1].value = "sk_preview"
        /\ callers[c].out[2].value = "ciphertext"

\* C18: getCache and setCache never raise: a call raises only when its
\* network fetch failed, also with failing file operations and broken files
C18_CacheNeverRaises ==
    \A c \in Callers :
        /\ callers[c].error # "cache"
        /\ callers[c].pc = "raised" =>
              callers[c].error = "network" /\ ~callers[c].hit
C18_Witness ==
    \E c \in Callers :
        /\ fsFaulty
        /\ callers[c].pc = "returned"
        /\ ~callers[c].hit
        /\ callers[c].listRequests = 1
        /\ cacheFiles[callers[c].key] = CorruptFile

\* a call that got past its cache lookup and its fetch
PastFetch(c) == callers[c].pc \in {"mkdir", "writeFile", "details", "returned"}

\* C19 as stated: no list request on a hit, exactly one on a miss, for
\* getEnvVars and getProjectsList alike
C19_OneListRequest ==
    \A c \in Callers :
        PastFetch(c) =>
            callers[c].listRequests = (IF callers[c].hit THEN 0 ELSE 1)
\* C19, amended: getEnvVars issues no list request on a hit and exactly one
\* on a miss; getProjectsList issues no page request on a hit and one or more
\* on a miss (one per page getProjects fetches); the list fetched is what is
\* written under the key of the call
C19_ReadThrough ==
    /\ \A c \in Callers :
          PastFetch(c) =>
              /\ callers[c].hit => callers[c].listRequests = 0
              /\ ~callers[c].hit /\ callers[c].op = "getEnvVars" =>
                    callers[c].listRequests = 1
              /\ ~callers[c].hit /\ callers[c].op = "getProjectsList" =>
                    callers[c].listRequests >= 1
    /\ \A c \in Callers :
          callers[c].pc \in {"mkdir", "writeFile"} =>
              /\ ~callers[c].hit
              /\ callers[c].key =
                    (IF callers[c].op = "getEnvVars"
                       THEN <<"envvars", 1, IF callers[c].includeValues THEN "true"
                                            ELSE "false">>
                       ELSE <<"projects", callers[c].limit, "">>)
              /\ callers[c].data = (IF callers[c].op = "getEnvVars" THEN ServerEnvs
                                    ELSE ExpectedProjects(callers[c].limit))
    /\ \A k \in CacheKeys :
          cacheFiles[k].kind = "entry" =>
              cacheFiles[k].data = (IF k \in EnvKeys THEN ServerEnvs
                                    ELSE ExpectedProjects(k[2]))
C19_Witness ==
    \E c \in Callers :
        /\ callers[c].op = "getProjectsList"
        /\ callers[c].pc = "returned"
        /\ ~callers[c].hit
        /\ callers[c].listRequests = 2
        /\ cacheFiles[callers[c].key].kind = "entry"
        /\ cacheFiles[callers[c].key].data = <<1, 2>>

\* C20: an envvars entry is served only while younger than 5 minutes, a
\* projects entry only while younger than 1 hour; once that old, the next
\* call removes it and fetches from the network
C20_TtlByKind ==
    [][\A c \in Callers :
         LET cache == cacheFiles[callers[c].key]
             limitMs == IF callers[c].op = "getEnvVars" THEN 5 * 60 * 1000
                        ELSE 60 * 60 * 1000
         IN  /\ ReadEnds(c) =>
                  /\ callers'[c].hit => Age(cache) < limitMs
                  /\ cache.kind = "entry" /\ Age(cache) < limitMs /\ ~fsFaulty =>
                        callers'[c].hit
                  /\ cache.kind = "entry" /\ Age(cache) >= limitMs /\ ~fsFaulty =>
                        callers'[c].pc = "unlink"
             /\ UnlinkEnds(c) =>
                  callers'[c].pc = "request" /\ callers'[c].listRequests = 1
             /\ WriteEnds(c) /\ cacheFiles'[callers[c].key] # cacheFiles[callers[c].key]
                /\ cacheFiles'[callers[c].key].kind = "entry" =>
                  Age(cacheFiles'[callers[c].key]) = now - callers[c].stamp
      ]_vars
C20_Witness ==
    \E c \in Callers :
        /\ callers[c].op = "getProjectsList"
        /\ callers[c].pc = "unlink"
        /\ Age(cacheFiles[callers[c].key]) = DefaultTtlMs
        /\ \E k \in EnvKeys :
              cacheFiles[k].kind = "entry" /\ Age(cacheFiles[k]) = 0

\* -------------------------------------------------------------------- C21
\* C21: once clearCache() has returned, no key has an entry in the cache (so
\* that getCache reports a miss for every key set before), until a key is
\* set again.
C21_ClearedMisses ==
    \A c \in Callers :
        callers[c].op = "clearCache" /\ callers[c].pc = "returned"
            => \A k \in CacheKeys : cacheFiles[k].kind # "entry"

\* -------------------------------------------------------------------- C22
\* C22: a getEnvVars call with includeValues has, when it returns, issued a
\* detail fetch for every variable of the filtered list that is encrypted or
\* has no value.
C22_DetailForEvery ==
    \A c \in Callers :
        LET rec == callers[c]
            filtered == FilteredEnvs(ServerEnvs, rec.targetFilter)
        IN  rec.op = "getEnvVars" /\ rec.pc = "returned" /\ rec.includeValues
                => \A i \in DOMAIN filtered :
                      IsEncryptedEnv(filtered[i]) => rec.detail[i] \in {"ok", "failed"}

\* -------------------------------------------------------------------- C23
\* C23: a getEnvVars call that awaits its detail fetches never raises, however
\* they end; it returns the whole filtered list, in which a variable whose
\* detail fetch failed is as the list request gave it, and a variable whose
\* detail fetch gave a value has that value.
C23_DetailFailureLocal ==
    [][\A c \in Callers :
          callers[c].pc = "details" =>
              LET rec == callers'[c]
                  filtered == callers[c].filteredEnvs
              IN  /\ rec.pc \in {"details", "returned"}
                  /\ rec.pc = "returned" =>
                        /\ Len(rec.out) = Len(filtered)
                        /\ \A i \in DOMAIN filtered :
                              /\ rec.detail[i] \in {"failed", "none", "null"}
                                    => rec.out[i] = filtered[i]
                              /\ (rec.detail[i] = "ok"
                                  /\ DetailValue(filtered[i].id) # "")
                                    => rec.out[i] =
                                         [filtered[i] EXCEPT
                                            !.value = DetailValue(filtered[i].id)]]_vars
C23_Witness ==
    \E c \in Callers :
        /\ callers[c].op = "getEnvVars"
        /\ callers[c].pc = "returned"
        /\ callers[c].targetFilter = ""
        /\ callers[c].detail = <<"none", "failed", "ok", "null", "failed">>
        /\ callers[c].out[2].value = ""
        /\ callers[c].out[3].value = "sk_live"

\* -------------------------------------------------------------------- C24
\* C24: when the list request of a getEnvVars call fails, the call raises
\* that error, having started no detail fetch and written nothing to the
\* cache; if nothing else writes the cache and its files can be read, the key
\* is left without a fresh entry, so that the next call requests the list
\* again.
C24_ListFailurePropagates ==
    [][\A c \in Callers :
          /\ callers[c].op = "getEnvVars"
          /\ callers[c].pc = "request"
          /\ callers'[c].pc # "request"
          /\ ~(callers'[c].pc = "mkdir" /\ callers'[c].data = ServerEnvs)
          => /\ callers'[c].pc = "raised"
             /\ callers'[c].error = "network"
             /\ callers[c].detail = <<>> /\ callers'[c].detail = <<>>
             /\ cacheFiles' = cacheFiles
             /\ (~fsFaulty /\ \A d \in Callers \ {c} : callers[d].op = "none")
                   => ~(/\ cacheFiles'[callers[c].key].kind = "entry"
                        /\ Fresh(cacheFiles'[callers[c].key]))]_vars
C24_Witness ==
    \E c \in Callers :
        /\ callers[c].op = "getEnvVars"
        /\ callers[c].pc = "raised"
        /\ callers[c].error = "network"
        /\ callers[c].includeValues
        /\ cacheFiles[callers[c].key] = NoFile

\* -------------------------------------------------------------------- C25
\* C25: when a getEnvVars call has returned (or raised), none of the detail
\* fetches it started is queued or in flight.
C25_DetailsSettledAtReturn ==
    \A c \in Callers :
        callers[c].op = "getEnvVars" /\ callers[c].pc \in {"returned", "raised"}
            => \A i \in DOMAIN callers[c].detail :
                  callers[c].detail[i] \notin {"queued", "inflight"}
C25_Witness ==
    \E c \in Callers :
        /\ callers[c].op = "getEnvVars"
        /\ callers[c].pc = "returned"
        /\ Cardinality({i \in DOMAIN callers[c].detail :
                           callers[c].detail[i] \in {"ok", "failed"}}) >= 2

\* -------------------------------------------------------------------- C26
\* the detail fetches in flight: their request holds a permit of this.limit
\* and has not settled
DetailFetchesInFlight ==
    {t \in (DOMAIN callers) \X (1..NumSecrets) : HoldsDetailPermit(t[1], t[2])}

\* C26: over all the calls that run at once, at most DetailLimit detail
\* fetches are in flight, and the detail fetches never hold every permit of
\* this.limit.
C26_DetailBound ==
    /\ Cardinality(DetailFetchesInFlight) <= DetailLimit
    /\ Cardinality(DetailFetchesInFlight) < maxConcurrent

\* within one call, at most DetailLimit detail fetches are in flight
DetailBoundPerCall ==
    \A c \in DOMAIN callers :
        Cardinality(DetailsInFlight(callers[c].detail)) <= DetailLimit

\* -------------------------------------------------------------------- C27
\* the tasks of the search that have started and not finished
RunningTasks == {p \in DOMAIN taskPc : taskPc[p] = "resolving"}

\* C27: never more than PROJECT_CONCURRENCY tasks of the search run at once,
\* and the task of every project is started in the end.
C27_FanOutBoundAndProgress ==
    /\ [](Cardinality(RunningTasks) <= PROJECT_CONCURRENCY)
    /\ \A p \in FanProjects : <>(taskPc[p] # "queued")

\* never more than PROJECT_CONCURRENCY tasks of the search run at once
FanOutBound == Cardinality(RunningTasks) <= PROJECT_CONCURRENCY

\* -------------------------------------------------------------------- C28
\* C28: when the task of every project has failed, what the search prints is
\* not what it prints when every project was searched and none matched.
C28_AllFailedReported ==
    (searchState = "done" /\ \A p \in Projects : resolved[p] = Failed)
        => SearchOutput(results) # SearchOutput(<<>>)

\* -------------------------------------------------------------------- C29
\* C29: getProjects(limit) returns the first min(limit, total) projects of
\* the server's list, in the server's order, however the server splits the
\* list into pages.
C29_ExactlyMinLimitTotal ==
    \A c \in Callers :
        callers[c].op = "getProjects" /\ callers[c].pc = "returned"
            => callers[c].out = SubSeq(ServerProjects, 1,
                                       Min(callers[c].limit, callers[c].total))
C29_Witness ==
    \E c \in Callers :
        /\ callers[c].op = "getProjects"
        /\ callers[c].pc = "returned"
        /\ callers[c].limit = 2
        /\ callers[c].total = 3
        /\ callers[c].listRequests = 2
        /\ callers[c].out = <<1, 2>>

\* -------------------------------------------------------------------- C30
\* C30: every getProjects call ends (returns or raises) after finitely many
\* page requests, whatever the server answers.
C30_FetchAllTerminates ==
    \A c \in Callers :
        (callers[c].op = "getProjects" /\ callers[c].pc = "request")
            ~> (callers[c].pc \in {"returned", "raised"})

\* -------------------------------------------------------------------- C32
\* the step issues a page request of caller c
IssuesPage(c) ==
    /\ callers'[c].op = "getProjects"
    /\ callers'[c].pc = "request"
    /\ callers'[c].listRequests # callers[c].listRequests
\* the request of a later page carries the cursor the previous page
\* reported, and is issued only below limit items
LaterPagesFollowCursor ==
    [][\A c \in Callers :
          (IssuesPage(c) /\ callers[c].pc = "request")
              => /\ callers'[c].next # NoCursor
                 /\ Len(callers'[c].data) < callers'[c].limit]_vars
\* C32: the first page request of getProjects carries no cursor, each later
\* one the cursor reported by the page before; no page is requested once
\* limit items are held or no next cursor was reported, so none at all
\* when limit is 0.
C32_PageFetchDiscipline ==
    [][\A c \in Callers :
          IssuesPage(c)
              => /\ Len(callers'[c].data) < callers'[c].limit
                 /\ IF callers[c].pc = "request"
                      THEN callers'[c].next # NoCursor
                      ELSE callers'[c].next = NoCursor]_vars

\* -------------------------------------------------------------------- C33
RECURSIVE InInputOrder(_)
\* one entry per project from p on that has a hit, in the order of projects
InInputOrder(p) ==
    IF p > NumProjects THEN <<>>
    ELSE (IF HitsOf(p) # <<>>
            THEN <<[project |-> p, matches |-> HitsOf(p)]>> ELSE <<>>)
         \o InInputOrder(p + 1)
\* C33: the MatchResults are returned in input project order whatever the
\* order in which the tasks complete: the result list is determined by the
\* query and by what each project resolved to, so two runs that differ only
\* in timing return the same ordered list.
C33_InputOrder == searchState = "done" => results = InInputOrder(1)
C33_Witness ==
    /\ searchState = "done"
    /\ ReportedProjects = Projects
    /\ \A i \in DOMAIN results : results[i].project = i

\* -------------------------------------------------------------------- C34
\* the variable of that key as the list endpoint gives it
ListedEnv(key) ==
    ServerEnvs[CHOOSE i \in DOMAIN ServerEnvs : ServerEnvs[i].key = key]
\* C34: getEnvVars runs a detail task only for a variable that passed the
\* target filter and is encrypted or has no value; a variable without a
\* detail task is returned as listed, and so is one whose detail response
\* succeeded with an empty value.
C34_ValueFrame ==
    \A c \in Callers :
        LET rec == callers[c]
        IN  /\ (rec.op = "getEnvVars" /\ rec.pc = "details") =>
                 \A i \in DOMAIN rec.detail :
                     rec.detail[i] # "none" =>
                         /\ rec.includeValues
                         /\ rec.targetFilter # "" =>
                                rec.targetFilter \in rec.filteredEnvs[i].target
                         /\ \/ rec.filteredEnvs[i].type = "encrypted"
                            \/ rec.filteredEnvs[i].value = ""
            /\ (rec.op = "getEnvVars" /\ rec.pc = "returned") =>
                 /\ DOMAIN rec.detail = DOMAIN rec.out
                 /\ \A i \in DOMAIN rec.out :
                       LET listed == ListedEnv(rec.out[i].key)
                       IN  /\ rec.targetFilter # "" =>
                                  rec.targetFilter \in listed.target
                           /\ (listed.type # "encrypted" /\ listed.value # "")
                                  => rec.detail[i] = "none"
                           /\ rec.detail[i] = "none" => rec.out[i] = listed
                           /\ (rec.detail[i] = "ok" /\ DetailValue(listed.id) = "")
                                  => rec.out[i] = listed
C34_Witness ==
    \E c \in Callers :
        /\ callers[c].op = "getEnvVars"
        /\ callers[c].pc = "returned"
        /\ callers[c].includeValues
        /\ callers[c].targetFilter = "production"
        /\ callers[c].detail = <<"none", "ok", "ok">>
        /\ callers[c].out[1] = ServerEnvs[1]
        /\ callers[c].out[2].value = "sk_live"
        /\ callers[c].out[3] = ServerEnvs[5]

\* -------------------------------------------------------------------- C35
\* the step is one of caller c's call, served from the cache
HitStep(c) ==
    /\ callers'[c].op \in {"getEnvVars", "getProjectsList"}
    /\ callers'[c].hit
    /\ \/ callers'[c].pc # callers[c].pc
       \/ callers'[c].detail # callers[c].detail
\* C35: no step of a call served from the cache changes a cache file: the
\* read that hits leaves the entry's timestamp, ttl and data as they are, and
\* the filtering and enrichment that follow write nothing back; the entry
\* keeps the expiry its last set gave it.
C35_HitLeavesEntry ==
    [][\A c \in Callers : HitStep(c) => cacheFiles' = cacheFiles]_vars
C35_Witness ==
    \E c \in Callers :
        /\ callers[c].op = "getEnvVars"
        /\ callers[c].pc = "returned"
        /\ callers[c].hit
        /\ \E i \in DOMAIN callers[c].out : callers[c].out[i].value = "sk_live"
        /\ cacheFiles[callers[c].key].kind = "entry"
        /\ cacheFiles[callers[c].key].timestamp < 0
        /\ cacheFiles[callers[c].key].data = ServerEnvs

\* -------------------------------------------------------------------- C36
\* C36: when each request is issued after the one before has settled, every
\* fetch, retries included, starts at least minDelayMs after the fetch
\* before it, and no step of the executor moves lastRequestTime back.
C36_SequentialSpaced ==
    [][/\ (netAttempts' # netAttempts /\ lastStart # 1)
            => now - lastStart >= minDelayMs
       /\ (pc' # pc) => lastRequestTime' >= lastRequestTime]_vars
C36_Witness ==
    /\ pc[<<1, 1>>] = "settled"
    /\ netAttempts[1] = 2
    /\ pc[<<2, 1>>] = "fetching"
    /\ netAttempts[2] = 1
    /\ lastStart = now
    /\ minGap = minDelayMs

\* -------------------------------------------------------------------- C37
\* the step is one of a login call
LoginStep == auth'.op = "login" /\ auth' # auth
\* C37: login writes the token to config.json only after validateToken gave
\* true; the validation itself changes neither config.json nor the cache and
\* ends in true or false, never in an error of its own; when it gives false
\* (the server refused the token or was not reached) login raises with
\* config.json and the cache as they were.
C37_StoreAfterValidation ==
    [][LoginStep =>
          /\ cacheFiles' = cacheFiles
          /\ configFile' # configFile =>
                /\ auth.isValid
                /\ auth.token \in ValidTokens
                /\ configFile' = auth.token
          /\ auth.pc = "validate" =>
                /\ configFile' = configFile
                /\ cacheDir' = cacheDir
                /\ hasToken' = hasToken
                /\ \/ auth'.pc = "load" /\ auth'.isValid
                   \/ /\ auth'.pc = "raised"
                      /\ auth'.error = "Invalid token"
                      /\ ~auth'.isValid
          /\ ~auth'.isValid => auth'.pc \in {"validate", "raised"}]_vars
C37_Witness ==
    /\ auth.op = "login"
    /\ auth.pc = "raised"
    /\ auth.error = "Invalid token"
    /\ auth.token \in ValidTokens
    /\ configFile \in Tokens \ {auth.token}
    /\ \E k \in CacheKeys : cacheFiles[k].kind = "entry"

\* -------------------------------------------------------------------- C38
\* logout() has returned
LoggedOut == auth.op = "logout" /\ auth.pc = "returned"
\* C38: once logout has returned, config.json holds no token and the cache
\* no entry; unless VERCEL_TOKEN is set, a request made then calls no fetch
\* and settles with the missing-credential error.
C38_LoggedOutClean ==
    [][LoggedOut =>
          /\ configFile = NoToken
          /\ \A k \in CacheKeys : cacheFiles[k].kind # "entry"
          /\ envToken = NoToken =>
                /\ netAttempts' = netAttempts
                /\ \A f \in Frames :
                      (pc'[f] = "settled" /\ pc[f] # "settled")
                          => res'[f] = AuthError]_vars
\* as C38 without the cache: the token is gone and requests fail unfetched
LoggedOutNoToken ==
    [][LoggedOut =>
          /\ configFile = NoToken
          /\ envToken = NoToken =>
                /\ ~hasToken
                /\ netAttempts' = netAttempts
                /\ \A f \in Frames :
                      (pc'[f] = "settled" /\ pc[f] # "settled")
                          => res'[f] = AuthError]_vars

\* -------------------------------------------------------------------- C39
\* C39: whatever keys are pressed, the cursor stays within
\* 0 .. projects.length - 1 and only ids of listed projects are selected,
\* each once; Enter resolves with exactly the ids selected at that moment.
C39_SelectionInRange ==
    selection # "none" =>
        /\ cursor \in 0..(projectCount - 1)
        /\ Members(selected) \subseteq 1..projectCount
        /\ Len(selected) = Cardinality(Members(selected))
        /\ selection = "confirmed" =>
              /\ Members(chosen) = Members(selected)
              /\ Len(chosen) = Cardinality(Members(selected))
              /\ previous = Members(selected)
        /\ selection # "confirmed" => chosen = <<>>
C39_Witness ==
    /\ selection = "confirmed"
    /\ projectCount = MaxListed
    /\ cursor = projectCount - 1
    /\ Members(chosen) = {1, projectCount}

\* -------------------------------------------------------------------- C40
\* C40: Space changes the membership of the project under the cursor and of
\* no other project, and leaves the cursor; a second Space right after the
\* first gives back the selection there was before the first; A selects
\* every project, or clears the selection if every project was selected.
C40_ToggleAlgebra ==
    [][selection' = "selecting" =>
          LET before == Members(selected)
              after == Members(selected')
              under == ProjectAt(cursor)
              all == 1..projectCount
          IN  /\ lastKey'.name = "space" =>
                    /\ cursor' = cursor
                    /\ (under \in after) = (under \notin before)
                    /\ after \ {under} = before \ {under}
              /\ (lastKey'.name = "space" /\ lastKey.name = "space")
                    => after = previous
              /\ lastKey'.sequence \in {"a", "A"} =>
                    after = IF before = all THEN {} ELSE all]_vars
C40_Witness ==
    /\ selection = "selecting"
    /\ lastKey.name = "space"
    /\ cursor = 1
    /\ projectCount = 3
    /\ previous = {1, 2, 3}
    /\ Members(selected) = {1, 3}

====
